---- MODULE Spec2Model ----
(***************************************************************************)
(* A model of easyofd (pdf4ofd): the conversion facade (easyofd/ofd.py),   *)
(* the PDF rendering engine's entry points (draw/draw_pdf.py), the OFD     *)
(* template engine (draw/ofdtemplate.py), the write orchestrator           *)
(* (draw/draw_ofd.py) and the parse orchestrator (parser_ofd/*.py).        *)
(*                                                                         *)
(* Python values are modelled as tagged records of one shape, so that the  *)
(* generic attribute-tree walks of the source (modify, gen_id,                 *)
(* correlate_res_uuid, recursion_ext) can be written as they are in the    *)
(* source, by case on isinstance:                                          *)
(*   none           None                                                   *)
(*   str   (s)      a str that is only compared, never taken apart         *)
(*   dec   (n)      the str f"{n}" of the int n                            *)
(*   chars (x)      a str as the sequence of its space-separated tokens    *)
(*   path  (x)      a str as the sequence of its "/"-separated components  *)
(*   int   (n)      an int                                                 *)
(*   float (n, d)   a float, held exactly as the fraction n/d              *)
(*   dict  (c)      a dict, as the sequence of its (key, value) items in   *)
(*                  insertion order                                        *)
(*   list  (c)      a list, as the sequence of its items (key "")          *)
(***************************************************************************)
EXTENDS Integers, Sequences, FiniteSets, TLC

VARIABLES
    data,            \* OFD.data of the facade object: [none, doc_list]
    last,            \* what the last facade / engine call did: [op, result]
    songti,          \* is the font named by DrawPDF.init_font registered with the engine
    has_read,        \* history: a read() succeeded since construction / the last del_data()
    id_obj,          \* the CurId shared by the templates built so far (or the allocator under test)
    n_calls,         \* number of get_id calls made on id_obj
    ret,             \* value returned by the last get_id call
    built,           \* the templates constructed so far with id_obj, oldest first
    pc,              \* where the write / read session stands
    inp,             \* the arguments of the OFDWrite call of the session
    pkg,             \* the package OFDWrite returned
    ofdb64,           \* the container handed to the reader
    path_map,       \* the path map FileRead returned
    disk,            \* the file system: [zip_file, unzip_dir] left by the reader, jbig2dec
    out,             \* [exc, doc_list]: the exception raised in the session, the parser's result
    pack,            \* two overlapping calls of OFDStructure.__call__ and the files they share
    call,            \* a function called on its own: [args, done, result]
    gui,             \* the window: [file_path, files, box, conv]
    font_tool        \* the fonts of the process and of the engine of the conversion under way

vars == <<data, last, songti, has_read, id_obj, n_calls, ret, built, pc, inp, pkg,
          ofdb64, path_map, disk, out, pack, call, gui, font_tool>>

-----------------------------------------------------------------------------
(* Python values *)

NoneV == [t |-> "none", s |-> "", n |-> 0, d |-> 1, x |-> <<>>, c |-> <<>>]
Str(v) == [t |-> "str", s |-> v, n |-> 0, d |-> 1, x |-> <<>>, c |-> <<>>]
Dec(v) == [t |-> "dec", s |-> "", n |-> v, d |-> 1, x |-> <<>>, c |-> <<>>]
PyInt(v) == [t |-> "int", s |-> "", n |-> v, d |-> 1, x |-> <<>>, c |-> <<>>]
Flt(num, den) == [t |-> "float", s |-> "", n |-> num, d |-> den, x |-> <<>>, c |-> <<>>]
Chars(v) == [t |-> "chars", s |-> "", n |-> 0, d |-> 1, x |-> v, c |-> <<>>]
Path(v) == [t |-> "path", s |-> "", n |-> 0, d |-> 1, x |-> v, c |-> <<>>]
Dict(items) == [t |-> "dict", s |-> "", n |-> 0, d |-> 1, x |-> <<>>, c |-> items]
List(vs) == [t |-> "list", s |-> "", n |-> 0, d |-> 1, x |-> <<>>,
             c |-> [i \in 1..Len(vs) |-> [k |-> "", v |-> vs[i]]]]
KV(key, v) == [k |-> key, v |-> v]

IsNone(v) == v.t = "none"
IsDict(v) == v.t = "dict"
IsList(v) == v.t = "list"
IsStr(v) == v.t \in {"str", "dec", "chars", "path"}

\* bool(v)
Truthy(v) ==
    CASE v.t = "none" -> FALSE
      [] v.t = "str" -> v.s # ""
      [] v.t = "dec" -> TRUE
      [] v.t \in {"chars", "path"} -> v.x # <<>>
      [] v.t \in {"int", "float"} -> v.n # 0
      [] OTHER -> v.c # <<>>

\* k in d
HasKey(d, key) == \E i \in 1..Len(d.c) : d.c[i].k = key
\* d.get(k)
Get(d, key) ==
    IF HasKey(d, key)
    THEN d.c[CHOOSE i \in 1..Len(d.c) : d.c[i].k = key].v
    ELSE NoneV
\* d[k] = v
SetItem(d, key, v) ==
    IF HasKey(d, key)
    THEN [d EXCEPT !.c = [i \in 1..Len(d.c) |->
                            IF d.c[i].k = key THEN KV(key, v) ELSE d.c[i]]]
    ELSE [d EXCEPT !.c = Append(d.c, KV(key, v))]
\* d.pop(k, None), the dict that is left
PopKey(d, key) ==
    [d EXCEPT !.c = SelectSeq(d.c, LAMBDA p : p.k # key)]
\* the i-th value of a dict or list, replaced
SetAt(d, i, v) ==
    [d EXCEPT !.c = [j \in 1..Len(d.c) |-> IF j = i THEN KV(d.c[j].k, v) ELSE d.c[j]]]
Items(l) == [i \in 1..Len(l.c) |-> l.c[i].v]

-----------------------------------------------------------------------------
(* Numbers and their text.  A float is held as an exact fraction; its text  *)
(* (f"{x}", str(x)) is a token made of decimal digit strings, and float()   *)
(* reads the digits back, so that writing a number into an attribute and    *)
(* parsing it again goes through the text.                                  *)

RECURSIVE GCD(_, _)
GCD(a, b) == IF b = 0 THEN a ELSE GCD(b, a % b)

\* the float n/d in lowest terms (n >= 0, d > 0)
Frac(num, den) == LET g == GCD(num, den) IN Flt(num \div g, den \div g)

\* x / y for floats; y is not zero
FloatDiv(x, y) == Frac(x.n * y.d, x.d * y.n)
\* float(i) for an int i
IntToFloat(i) == Flt(i, 1)
\* x + y and x * y for floats
FloatAdd(x, y) == Frac(x.n * y.d + y.n * x.d, x.d * y.d)
FloatMul(x, y) == Frac(x.n * y.n, x.d * y.d)

RECURSIVE IntToDigits(_)
IntToDigits(i) == IF i < 10 THEN <<i>> ELSE Append(IntToDigits(i \div 10), i % 10)

RECURSIVE DigitsToInt(_)
DigitsToInt(ds) ==
    IF ds = <<>> THEN 0
    ELSE 10 * DigitsToInt(SubSeq(ds, 1, Len(ds) - 1)) + ds[Len(ds)]

\* A token of a string: a word, then digits, then (for a number) the digits
\* of the denominator, then a file extension.  "Page_3" is Name("Page_", 3),
\* "Image_0.jpg" is File("Image_", 0, ".jpg"), "OFD.xml" is Word("OFD.xml").
Word(w) == [w |-> w, i |-> <<>>, f |-> <<>>, e |-> ""]
Name(w, i) == [w |-> w, i |-> IntToDigits(i), f |-> <<>>, e |-> ""]
File(w, i, e) == [w |-> w, i |-> IntToDigits(i), f |-> <<>>, e |-> e]
\* the decimal text of an int: digits only
IntTok(n) == [w |-> "", i |-> IntToDigits(n), f |-> <<>>, e |-> ""]
\* f"{x}" of a float or an int
NumTok(v) == [w |-> "", i |-> IntToDigits(v.n), f |-> IntToDigits(v.d), e |-> ""]

\* does float(tok) succeed
IsNumTok(tok) == tok.w = "" /\ tok.i # <<>> /\ tok.f # <<>> /\ tok.e = ""
\* float(tok)
ParseFloat(tok) == Frac(DigitsToInt(tok.i), DigitsToInt(tok.f))

\* [float(pos_i) for pos_i in s.split(" ")]: the floats, or the exception
FloatList(v) ==
    IF v.t # "chars" \/ v.x = <<>> \/ \E i \in 1..Len(v.x) : ~IsNumTok(v.x[i])
    THEN [exc |-> "ValueError", val |-> <<>>]
    ELSE [exc |-> "", val |-> [i \in 1..Len(v.x) |-> ParseFloat(v.x[i])]]

\* re.search(r"\d+", s) on a path: the first run of digits, if any
FirstDigits(v) ==
    LET hits == {i \in 1..Len(v.x) : v.x[i].i # <<>>}
    IN  IF v.t = "path" /\ hits # {}
        THEN [found |-> TRUE,
              val |-> DigitsToInt(v.x[CHOOSE i \in hits : \A j \in hits : i <= j].i)]
        ELSE [found |-> FALSE, val |-> 0]

-----------------------------------------------------------------------------
(* XML members.  xmltodict.unparse turns an attribute tree into a document  *)
(* of elements [tag, attrs, text, kids]; xmltodict.parse turns a document   *)
(* back into an attribute tree.  The two are not inverse: an empty list     *)
(* leaves no element, a one-element list comes back as its element, ints    *)
(* and floats come back as their text, an empty text comes back as nothing. *)

\* the keys that start with "@"
AttrKeys ==
    {"@ID", "@xmlns:ofd", "@Version", "@DocType", "@BaseLoc", "@Type",
     "@BitsPerComponent", "@FontName", "@FamilyName", "@FixedWidth", "@Serif",
     "@Bold", "@Charset", "@CTM", "@Boundary", "@Font", "@Size", "@size",
     "@ColorSpace", "@Value", "@CodePosition", "@CodeCount", "@GlyphCount",
     "@X", "@Y", "@DeltaX", "@DeltaY", "@ResourceID", "@Format", "@wrap_pos",
     "@LineWidth"}

\* str(v)
PyStr(v) ==
    CASE IsStr(v) -> v
      [] v.t = "int" -> Dec(v.n)
      [] v.t = "float" -> Chars(<<NumTok(v)>>)
      [] v.t = "none" -> Str("None")
      [] OTHER -> Str("repr")

RECURSIVE emit(_, _)
RECURSIVE emit_list(_, _, _)
RECURSIVE emit_children(_, _)
RECURSIVE emit_cell(_, _)

\* one element for one value
emit_cell(key, v0) ==
    LET v == IF IsNone(v0) THEN Dict(<<>>)
             ELSE IF IsDict(v0) THEN v0
             ELSE Dict(<<KV("#text", PyStr(v0))>>)
        attrs == SelectSeq(v.c, LAMBDA p : p.k \in AttrKeys)
        children == SelectSeq(v.c, LAMBDA p : p.k \notin AttrKeys /\ p.k # "#text")
    IN  [tag |-> key,
         attrs |-> [i \in 1..Len(attrs) |-> KV(attrs[i].k, PyStr(attrs[i].v))],
         text |-> Get(v, "#text"),
         kids |-> emit_children(children, 1)]

emit_children(children, i) ==
    IF i > Len(children) THEN <<>>
    ELSE emit(children[i].k, children[i].v) \o emit_children(children, i + 1)

emit_list(key, l, j) ==
    IF j > Len(l.c) THEN <<>>
    ELSE <<emit_cell(key, l.c[j].v)>> \o emit_list(key, l, j + 1)

\* the elements written for one item of a dict: one per entry of a list
emit(key, value) ==
    IF IsList(value) THEN emit_list(key, value, 1) ELSE <<emit_cell(key, value)>>

\* xmltodict.unparse of a tree with one root: the root element
unparse(final_json) == emit_cell(final_json.c[1].k, final_json.c[1].v)

\* xmltodict's push_data: a repeated tag becomes a list
push_data(item, key, value) ==
    IF HasKey(item, key)
    THEN LET old == Get(item, key)
         IN  IF IsList(old)
             THEN SetItem(item, key, [old EXCEPT !.c = Append(old.c, KV("", value))])
             ELSE SetItem(item, key, List(<<old, value>>))
    ELSE SetItem(item, key, value)

RECURSIVE parse_element(_)
RECURSIVE push_kids(_, _, _)

push_kids(item, kids, i) ==
    IF i > Len(kids) THEN item
    ELSE push_kids(push_data(item, kids[i].tag, parse_element(kids[i])), kids, i + 1)

\* the value an element is parsed to
parse_element(e) ==
    LET item == push_kids(Dict(e.attrs), e.kids, 1)
        text == IF Truthy(e.text) THEN e.text ELSE NoneV
    IN  IF e.attrs # <<>> \/ e.kids # <<>>
        THEN IF Truthy(text) THEN push_data(item, "#text", text) ELSE item
        ELSE text

\* xmltodict.parse of a document
parse(e) == Dict(<<KV(e.tag, parse_element(e))>>)

-----------------------------------------------------------------------------
(* CurId: the id allocator of a write session (ofdtemplate.py) *)

EmptyMap == [u \in {} |-> NoneV]

CurId_init == [id |-> 1, used |-> FALSE, uuid_map |-> EmptyMap]

add_uuid_map(o, k, v) ==
    [o EXCEPT !.uuid_map = [u \in DOMAIN o.uuid_map \cup {k} |->
                              IF u = k THEN v ELSE o.uuid_map[u]]]

add(o) == [o EXCEPT !.id = o.id + 1]

\* the get_id of a bug that hands out the current id again
get_id_stuck(o) == [ret |-> o.id, id_obj |-> [o EXCEPT !.used = TRUE]]

\* the get_id of a bug that increments before the first use as well
get_id_eager(o) == [ret |-> add(o).id, id_obj |-> [add(o) EXCEPT !.used = TRUE]]

\* returns the id and the allocator after the call
get_id(o) ==
    IF o.used
    THEN [ret |-> add(o).id, id_obj |-> add(o)]
    ELSE [ret |-> o.id, id_obj |-> [o EXCEPT !.used = TRUE]]

get_max_id(o) == o.id + 1

-----------------------------------------------------------------------------
(* TemplateBase: the generic attribute-tree walks (ofdtemplate.py) *)

\* a local variable: the value v under the name that F gives it
With(v, F(_)) == F(v)

\* Overwrites the value of every item named key; does not descend into a
\* value it has overwritten.
RECURSIVE modify(_, _, _)
modify(ofdjson, key, value) ==
    [ofdjson EXCEPT !.c = [i \in 1..Len(ofdjson.c) |->
        LET k == ofdjson.c[i].k
            v == ofdjson.c[i].v
        IN  IF k = key THEN KV(k, value)
            ELSE IF IsDict(v) THEN KV(k, modify(v, key, value))
            ELSE IF IsList(v)
                 THEN KV(k, [v EXCEPT !.c = [j \in 1..Len(v.c) |->
                                IF IsDict(v.c[j].v)
                                THEN KV("", modify(v.c[j].v, key, value))
                                ELSE v.c[j]]])
            ELSE ofdjson.c[i]]]

\* node["@ID"] = f"{get_id()}"; with record (the DocumentRes / PublicRes
\* overrides) a truthy res_uuid of the node is recorded against that id.
\* The carrier res_uuid stays in the node.
gen_id_node(node, o, record) ==
    LET g == get_id(o)
        n1 == SetItem(node, "@ID", Dec(g.ret))
        res_uuid == Get(n1, "res_uuid")
    IN  [json |-> n1,
         id_obj |-> IF record /\ Truthy(res_uuid)
                    THEN add_uuid_map(g.id_obj, res_uuid, Get(n1, "@ID"))
                    ELSE g.id_obj]

RECURSIVE gen_id_walk(_, _, _, _)
RECURSIVE gen_id_items(_, _, _, _, _)
RECURSIVE gen_id_list(_, _, _, _)
RECURSIVE gen_id_cells(_, _, _, _, _)

\* for i in ofdjson[k]: i["@ID"] = ...   (the entries of such lists are dicts)
gen_id_list(l, j, o, record) ==
    IF j > Len(l.c) THEN [json |-> l, id_obj |-> o]
    ELSE LET r == gen_id_node(l.c[j].v, o, record)
         IN  gen_id_list(SetAt(l, j, r.json), j + 1, r.id_obj, record)

\* for v_cell in v: if isinstance(v_cell, dict): self.gen_id(v_cell, id_key)
gen_id_cells(l, j, id_key, o, record) ==
    IF j > Len(l.c) THEN [json |-> l, id_obj |-> o]
    ELSE IF IsDict(l.c[j].v)
         THEN LET r == gen_id_walk(l.c[j].v, id_key, o, record)
              IN  gen_id_cells(SetAt(l, j, r.json), j + 1, id_key, r.id_obj, record)
         ELSE gen_id_cells(l, j + 1, id_key, o, record)

\* for k, v in ofdjson.items(): ...
gen_id_items(d, i, id_key, o, record) ==
    IF i > Len(d.c) THEN [json |-> d, id_obj |-> o]
    ELSE LET k == d.c[i].k
             v == d.c[i].v
             r == IF k = id_key
                  THEN IF IsDict(v) THEN gen_id_node(v, o, record)
                       ELSE IF IsList(v) THEN gen_id_list(v, 1, o, record)
                       ELSE [json |-> v, id_obj |-> o]
                  ELSE IF IsDict(v) THEN gen_id_walk(v, id_key, o, record)
                  ELSE IF IsList(v) THEN gen_id_cells(v, 1, id_key, o, record)
                  ELSE [json |-> v, id_obj |-> o]
         IN  gen_id_items(SetAt(d, i, r.json), i + 1, id_key, r.id_obj, record)

gen_id_walk(ofdjson, id_key, o, record) == gen_id_items(ofdjson, 1, id_key, o, record)

\* TemplateBase.gen_id and its two overrides; each returns [json, id_obj]
gen_id(ofdjson, id_key, o) == gen_id_walk(ofdjson, id_key, o, FALSE)
DocumentResTemplate_gen_id(ofdjson, id_key, o) == gen_id_walk(ofdjson, id_key, o, TRUE)
PublicResTemplate_gen_id(ofdjson, id_key, o) == gen_id_walk(ofdjson, id_key, o, TRUE)

\* TemplateBase.assemble: the modifications asked for by the keyword arguments
\* (in their order), then one gen_id pass per id key (in their order).
\* kwargs is a sequence of (name, value); key_map a record name -> key.
RECURSIVE apply_kwargs(_, _, _, _)
apply_kwargs(final_json, key_map, kwargs, i) ==
    IF i > Len(kwargs) THEN final_json
    ELSE apply_kwargs(IF kwargs[i].k \in DOMAIN key_map
                      THEN modify(final_json, key_map[kwargs[i].k], kwargs[i].v)
                      ELSE final_json,
                      key_map, kwargs, i + 1)

RECURSIVE gen_ids(_, _, _, _, _)
gen_ids(final_json, id_keys, i, o, record) ==
    IF i > Len(id_keys) THEN [json |-> final_json, id_obj |-> o]
    ELSE LET r == gen_id_walk(final_json, id_keys[i], o, record)
         IN  gen_ids(r.json, id_keys, i + 1, r.id_obj, record)

assemble(ofdjson, key_map, id_keys, kwargs, o, record) ==
    gen_ids(apply_kwargs(ofdjson, key_map, kwargs, 1), id_keys, 1, o, record)

-----------------------------------------------------------------------------
(* The templates (ofdtemplate.py): skeleton, key_map, id_keys *)

Nums(ns) == Chars([i \in 1..Len(ns) |-> NumTok(IntToFloat(ns[i]))])
Decimal(num, den) == NumTok(Frac(num, den))
XmlFile(w) == [w |-> w, i |-> <<>>, f |-> <<>>, e |-> ".xml"]
xmlns == Str("http://blog.yuanhaiying.cn")

OFDTemplate_key_map ==
    [Author |-> "ofd:Author", DocID |-> "ofd:DocID", CreationDate |-> "ofd:CreationDate"]
OFDTemplate_id_keys == <<>>
OFDTemplate_ofdjson ==
    Dict(<<KV("ofd:OFD", Dict(<<
        KV("@xmlns:ofd", xmlns),
        KV("@Version", Str("1.1")),
        KV("@DocType", Str("OFD")),
        KV("ofd:DocBody", List(<<Dict(<<
            KV("ofd:DocInfo", Dict(<<
                KV("ofd:DocID", Str("0C1D4F7159954EEEDE517F7285E84DC4")),
                KV("ofd:Creator", Str("easyofd")),
                KV("ofd:author", Str("renoyuan")),
                KV("ofd:authoremail", Str("renoyuan@foxmail.com")),
                KV("ofd:CreatorVersion", Str("1.0")),
                KV("ofd:CreationDate", Str("2023-10-27"))>>)),
            KV("ofd:DocRoot", Path(<<Name("Doc_", 0), XmlFile("Document")>>))>>)>>))>>))>>)

DocumentTemplate_key_map == [Page |-> "ofd:Page", PhysicalBox |-> "ofd:PhysicalBox"]
DocumentTemplate_id_keys == <<"ofd:Page">>
DocumentTemplate_ofdjson ==
    Dict(<<KV("ofd:Document", Dict(<<
        KV("@xmlns:ofd", xmlns),
        KV("ofd:CommonData", Dict(<<
            KV("ofd:MaxUnitID", PyInt(0)),
            KV("ofd:PageArea", Dict(<<KV("ofd:PhysicalBox", Nums(<<0, 0, 140, 90>>))>>)),
            KV("ofd:PublicRes", Path(<<XmlFile("PublicRes")>>)),
            KV("ofd:DocumentRes", Path(<<XmlFile("DocumentRes")>>))>>)),
        KV("ofd:Pages", Dict(<<
            KV("ofd:Page", List(<<Dict(<<
                KV("@ID", PyInt(0)),
                KV("@BaseLoc", Path(<<Word("Pages"), Name("Page_", 0),
                                      XmlFile("Content")>>))>>)>>))>>))>>))>>)

DocumentResTemplate_key_map == [MultiMedia |-> "ofd:MultiMedia"]
DocumentResTemplate_id_keys == <<"ofd:DrawParam", "ofd:MultiMedia">>
DocumentResTemplate_ofdjson ==
    Dict(<<KV("ofd:Res", Dict(<<
        KV("@xmlns:ofd", xmlns),
        KV("@BaseLoc", Path(<<Word("Res")>>)),
        KV("ofd:MultiMedias", Dict(<<
            KV("ofd:MultiMedia", List(<<Dict(<<
                KV("@ID", PyInt(0)),
                KV("@Type", Str("Image")),
                KV("ofd:MediaFile", Path(<<File("Image_", 2, ".jpg")>>))>>)>>))>>))>>))>>)

PublicResTemplate_key_map == [Font |-> "ofd:Font"]
PublicResTemplate_id_keys == <<"ofd:ColorSpace", "ofd:Font">>
PublicResTemplate_ofdjson ==
    Dict(<<KV("ofd:Res", Dict(<<
        KV("@xmlns:ofd", xmlns),
        KV("@BaseLoc", Path(<<Word("Res")>>)),
        KV("ofd:ColorSpaces", Dict(<<
            KV("ofd:ColorSpace", Dict(<<
                KV("@ID", PyInt(0)),
                KV("@Type", Str("RGB")),
                KV("@BitsPerComponent", Str("8")),
                KV("#text", Str(""))>>))>>)),
        KV("ofd:Fonts", Dict(<<
            KV("ofd:Font", List(<<Dict(<<
                KV("@ID", PyInt(0)),
                KV("@FontName", Str("SimSun")),
                KV("@FamilyName", Str("SimSun"))>>)>>))>>))>>))>>)

ContentTemplate_key_map ==
    [ImageObject |-> "ofd:ImageObject", PathObject |-> "ofd:PathObject",
     TextObject |-> "ofd:TextObject", CGTransform |-> "ofd:CGTransform",
     PhysicalBox |-> "ofd:PhysicalBox"]
ContentTemplate_id_keys ==
    <<"ofd:Layer", "ofd:TextObject", "ofd:PathObject", "ofd:Clips", "ofd:ImageObject">>
\* correlate_map, in its order
correlate_map == <<KV("ofd:TextObject", "@Font"), KV("ofd:ImageObject", "@ResourceID")>>
ContentTemplate_ofdjson ==
    Dict(<<KV("ofd:Page", Dict(<<
        KV("@xmlns:ofd", xmlns),
        KV("ofd:Content", Dict(<<
            KV("ofd:PageArea", Dict(<<KV("ofd:PhysicalBox", Nums(<<0, 0, 210, 140>>))>>)),
            KV("ofd:Layer", Dict(<<
                KV("@ID", PyInt(0)),
                KV("@Type", Str("Foreground")),
                KV("ofd:TextObject", List(<<Dict(<<
                    KV("@ID", PyInt(0)),
                    KV("@CTM", Chars(<<Decimal(7054, 1000), Decimal(0, 1), Decimal(0, 1),
                                       Decimal(7054, 1000), Decimal(0, 1),
                                       Decimal(134026, 1000)>>)),
                    KV("@Boundary", Chars(<<Decimal(69, 1), Decimal(7, 1), Decimal(72, 1),
                                            Decimal(76749, 10000)>>)),
                    KV("@Font", Str("69")),
                    KV("@Size", Chars(<<Decimal(67028, 10000)>>)),
                    KV("ofd:FillColor", Dict(<<
                        KV("@ColorSpace", Str("4")),
                        KV("@Value", Nums(<<156, 82, 35>>))>>)),
                    KV("ofd:CGTransform", Dict(<<
                        KV("@CodePosition", Str("0")),
                        KV("@CodeCount", Str("10")),
                        KV("@GlyphCount", Str("10")),
                        KV("ofd:Glyphs", Str("18 10 11 42 60 53 24 11 42 61"))>>)),
                    KV("ofd:TextCode", Dict(<<
                        KV("@X", Chars(<<Decimal(13925, 1000)>>)),
                        KV("@Y", Nums(<<10>>)),
                        KV("@DeltaX", Nums(<<7, 7, 7, 7, 7, 7, 7, 7, 7>>)),
                        KV("#text", Str("invoice"))>>))>>)>>)),
                KV("ofd:ImageObject", List(<<>>))>>))>>))>>))>>)

-----------------------------------------------------------------------------
(* ContentTemplate.correlate_res_uuid.  Each walk returns [json, exc]; exc   *)
(* is "" or the name of the exception that ended the walk.  vc is the local *)
(* variable v_cell of the running call: unbound until one of its two loops  *)
(* has bound it, and then the place (item, entry) of the cell it names.     *)

Unbound == [bound |-> FALSE, i |-> 0, j |-> 0]

RECURSIVE correlate_res_uuid(_, _, _, _)
RECURSIVE correlate_items(_, _, _, _, _, _)
RECURSIVE correlate_list(_, _, _, _)
RECURSIVE correlate_cells(_, _, _, _, _)

\* for v_cell in v (v is the list found under key): pop the carrier, and if it
\* is truthy write the recorded id
correlate_list(l, j, targe_key, uuid_map) ==
    IF j > Len(l.c) THEN [json |-> l, exc |-> ""]
    ELSE LET v_cell == l.c[j].v
             res_uuid == Get(v_cell, "res_uuid")
         IN  IF IsDict(v_cell) /\ Truthy(res_uuid)
             THEN IF res_uuid \in DOMAIN uuid_map
                  THEN correlate_list(
                           SetAt(l, j, SetItem(PopKey(v_cell, "res_uuid"), targe_key,
                                               uuid_map[res_uuid])),
                           j + 1, targe_key, uuid_map)
                  ELSE [json |-> SetAt(l, j, PopKey(v_cell, "res_uuid")),
                        exc |-> "KeyError"]
             ELSE correlate_list(
                      IF IsDict(v_cell) THEN SetAt(l, j, PopKey(v_cell, "res_uuid")) ELSE l,
                      j + 1, targe_key, uuid_map)

\* for v_cell in v (v is a list under another key): descend into the dicts
correlate_cells(l, j, key, targe_key, uuid_map) ==
    IF j > Len(l.c) THEN [json |-> l, exc |-> ""]
    ELSE IF IsDict(l.c[j].v)
         THEN LET r == correlate_res_uuid(l.c[j].v, key, targe_key, uuid_map)
              IN  IF r.exc # "" THEN [json |-> SetAt(l, j, r.json), exc |-> r.exc]
                  ELSE correlate_cells(SetAt(l, j, r.json), j + 1, key, targe_key, uuid_map)
         ELSE correlate_cells(l, j + 1, key, targe_key, uuid_map)

\* for k, v in ofdjson.items()
correlate_items(d, i, key, targe_key, uuid_map, vc) ==
    IF i > Len(d.c) THEN [json |-> d, exc |-> ""]
    ELSE
    LET k == d.c[i].k
        v == d.c[i].v
        last_cell == [bound |-> TRUE, i |-> i, j |-> Len(v.c)]
    IN  IF k = key /\ IsDict(v)
        THEN \* the dict branch reads v_cell, not v
             IF ~vc.bound THEN [json |-> d, exc |-> "UnboundLocalError"]
             ELSE LET v_cell == d.c[vc.i].v.c[vc.j].v
                      res_uuid == Get(v_cell, "res_uuid")
                      d1 == SetAt(d, vc.i, SetAt(d.c[vc.i].v, vc.j, PopKey(v_cell, "res_uuid")))
                  IN  IF ~IsDict(v_cell) THEN [json |-> d, exc |-> "AttributeError"]
                      ELSE IF ~Truthy(res_uuid)
                           THEN correlate_items(d1, i + 1, key, targe_key, uuid_map, vc)
                      ELSE IF res_uuid \notin DOMAIN uuid_map
                           THEN [json |-> d1, exc |-> "KeyError"]
                      ELSE correlate_items(
                               SetAt(d1, i, SetItem(v, targe_key, uuid_map[res_uuid])),
                               i + 1, key, targe_key, uuid_map, vc)
        ELSE IF k = key /\ IsList(v)
        THEN LET r == correlate_list(v, 1, targe_key, uuid_map)
             IN  IF r.exc # "" THEN [json |-> SetAt(d, i, r.json), exc |-> r.exc]
                 ELSE correlate_items(SetAt(d, i, r.json), i + 1, key, targe_key, uuid_map,
                                      IF v.c # <<>> THEN last_cell ELSE vc)
        ELSE IF k = key
        THEN correlate_items(d, i + 1, key, targe_key, uuid_map, vc)
        ELSE IF IsDict(v)
        THEN LET r == correlate_res_uuid(v, key, targe_key, uuid_map)
             IN  IF r.exc # "" THEN [json |-> SetAt(d, i, r.json), exc |-> r.exc]
                 ELSE correlate_items(SetAt(d, i, r.json), i + 1, key, targe_key,
                                      uuid_map, vc)
        ELSE IF IsList(v)
        THEN LET r == correlate_cells(v, 1, key, targe_key, uuid_map)
             IN  IF r.exc # "" THEN [json |-> SetAt(d, i, r.json), exc |-> r.exc]
                 ELSE correlate_items(SetAt(d, i, r.json), i + 1, key, targe_key, uuid_map,
                                      IF v.c # <<>> THEN last_cell ELSE vc)
        ELSE correlate_items(d, i + 1, key, targe_key, uuid_map, vc)

correlate_res_uuid(ofdjson, key, targe_key, uuid_map) ==
    correlate_items(ofdjson, 1, key, targe_key, uuid_map, Unbound)

-----------------------------------------------------------------------------
(* Template construction.  Each constructor returns the template's          *)
(* final_json, the allocator after the construction and the exception that  *)
(* ended it ("" if none).                                                    *)

\* the template and the allocator that assemble left
Built(r) == [final_json |-> r.json, id_obj |-> r.id_obj, exc |-> ""]

OFDTemplate_init(kwargs, o) ==
    Built(assemble(OFDTemplate_ofdjson, OFDTemplate_key_map, OFDTemplate_id_keys,
                   kwargs, o, FALSE))

DocumentTemplate_init(kwargs, o) ==
    Built(assemble(DocumentTemplate_ofdjson, DocumentTemplate_key_map,
                   DocumentTemplate_id_keys, kwargs, o, FALSE))

DocumentResTemplate_init(kwargs, o) ==
    Built(assemble(DocumentResTemplate_ofdjson, DocumentResTemplate_key_map,
                   DocumentResTemplate_id_keys, kwargs, o, TRUE))

PublicResTemplate_init(kwargs, o) ==
    Built(assemble(PublicResTemplate_ofdjson, PublicResTemplate_key_map,
                   PublicResTemplate_id_keys, kwargs, o, TRUE))

\* for key, targe_key in self.correlate_map.items(): correlate_res_uuid(...)
RECURSIVE correlate_all(_, _, _)
correlate_all(final_json, i, uuid_map) ==
    IF i > Len(correlate_map) THEN [json |-> final_json, exc |-> ""]
    ELSE With(correlate_res_uuid(final_json, correlate_map[i].k, correlate_map[i].v,
                                 uuid_map),
              LAMBDA r : IF r.exc # "" THEN r ELSE correlate_all(r.json, i + 1, uuid_map))

ContentTemplate_init(kwargs, o) ==
    With(assemble(ContentTemplate_ofdjson, ContentTemplate_key_map,
                  ContentTemplate_id_keys, kwargs, o, FALSE),
         LAMBDA r :
            With(correlate_all(r.json, 1, r.id_obj.uuid_map),
                 LAMBDA c : [final_json |-> c.json, id_obj |-> r.id_obj, exc |-> c.exc]))

\* DocumentTemplate.update_max_unit_id: the first ofd:MaxUnitID met in each
\* dict of the walk is set to get_max_id(); the walk of that dict ends there.
RECURSIVE update_max_unit_id(_, _)
RECURSIVE update_max_items(_, _, _)
RECURSIVE update_max_cells(_, _, _)

update_max_cells(l, j, o) ==
    IF j > Len(l.c) THEN l
    ELSE update_max_cells(IF IsDict(l.c[j].v)
                          THEN SetAt(l, j, update_max_unit_id(l.c[j].v, o))
                          ELSE l,
                          j + 1, o)

update_max_items(d, i, o) ==
    IF i > Len(d.c) THEN d
    ELSE IF d.c[i].k = "ofd:MaxUnitID" THEN SetAt(d, i, PyInt(get_max_id(o)))
    ELSE LET v == d.c[i].v
         IN  update_max_items(
                 IF IsDict(v) THEN SetAt(d, i, update_max_unit_id(v, o))
                 ELSE IF IsList(v) THEN SetAt(d, i, update_max_cells(v, 1, o))
                 ELSE d,
                 i + 1, o)

update_max_unit_id(final_json, o) == update_max_items(final_json, 1, o)

-----------------------------------------------------------------------------
(* OFDWrite: the builders of the write orchestrator (draw_ofd.py).          *)
(*   an image is its pixel size <<w, h>>;                                    *)
(*   a page image is (bytes, w / OP, h / OP);                                *)
(*   pfd_res_uuid_map is [given, img, font, page_size]: given is its        *)
(*   truth value, img and font are the items of its two sub-maps in order,  *)
(*   page_size is other.page_size;                                           *)
(*   a block of pdf_info_list is [type, res_uuid, bbox, text, size].        *)

\* the scale of a resolution of 200 dpi
OP_200dpi == Flt(1000, 127)
\* self.OP = 96 / 25.4
OP == Flt(480, 127)

NoMap == [given |-> FALSE, img |-> <<>>, font |-> <<>>, page_size |-> <<>>]
Zero == NumTok(IntToFloat(0))
\* the str of n characters
Text(n) == Chars([i \in 1..n |-> Word("c")])
\* the bytes of the picture of an image
pil_2_bytes(img) == Chars(<<Name("png", img[1]), Name("x", img[2])>>)
page_pil_img(img) ==
    [bytes |-> pil_2_bytes(img),
     w |-> FloatDiv(IntToFloat(img[1]), OP),
     h |-> FloatDiv(IntToFloat(img[2]), OP)]
ImageName(res_uuid) == Path(<<File("Image_", res_uuid.n, ".jpg")>>)

build_ofd_entrance(o) ==
    OFDTemplate_init(<<KV("CreationDate", Str("now")), KV("id_obj", NoneV)>>, o)

build_document(img_len, o, PhysicalBox) ==
    LET pages == List([idx \in 1..img_len |->
                    Dict(<<KV("@ID", Dec(idx)),
                           KV("@BaseLoc", Path(<<Word("Pages"), Name("Page_", idx - 1),
                                                 XmlFile("Content")>>))>>)])
    IN  DocumentTemplate_init(<<KV("Page", pages), KV("id_obj", NoneV),
                                KV("PhysicalBox", PhysicalBox)>>, o)

build_document_res(img_len, o, pfd_res_uuid_map) ==
    LET pfd_img == pfd_res_uuid_map.img
        entry(res_uuid) ==
            Dict(<<KV("@ID", PyInt(0)), KV("@Type", Str("Image")),
                   KV("ofd:MediaFile", ImageName(res_uuid)), KV("res_uuid", res_uuid)>>)
        MultiMedia ==
            IF img_len # 0 /\ ~pfd_res_uuid_map.given
            THEN [num \in 1..img_len |-> entry(Dec(num - 1))]
            ELSE IF pfd_res_uuid_map.given /\ pfd_img # <<>>
            THEN [i \in 1..Len(pfd_img) |-> entry(pfd_img[i].k)]
            ELSE <<>>
    IN  DocumentResTemplate_init(<<KV("MultiMedia", List(MultiMedia)),
                                   KV("id_obj", NoneV)>>, o)

build_public_res(o, pfd_res_uuid_map) ==
    LET pfd_font == pfd_res_uuid_map.font
        fonts ==
            IF pfd_res_uuid_map.given /\ pfd_font # <<>>
            THEN [i \in 1..Len(pfd_font) |->
                    Dict(<<KV("@ID", PyInt(0)),
                           KV("@FontName", pfd_font[i].v),
                           KV("@FamilyName", pfd_font[i].v),
                           KV("res_uuid", pfd_font[i].k),
                           KV("@FixedWidth", Str("false")),
                           KV("@Serif", Str("false")),
                           KV("@Bold", Str("false")),
                           KV("@Charset", Str("prc"))>>)]
            ELSE <<>>
    IN  PublicResTemplate_init(<<KV("Font", List(fonts)), KV("id_obj", NoneV)>>, o)

\* the Content template of the page that shows page image number idx (from 0)
image_content(pil_img, idx, o) ==
    LET PhysicalBox == Chars(<<Zero, Zero, NumTok(pil_img.w), NumTok(pil_img.h)>>)
        ImageObject == List(<<Dict(<<
            KV("@ID", PyInt(0)),
            KV("@CTM", Chars(<<NumTok(pil_img.w), Zero, Zero, NumTok(pil_img.h),
                               Zero, Zero>>)),
            KV("@Boundary", Chars(<<Zero, Zero, NumTok(pil_img.w), NumTok(pil_img.h)>>)),
            KV("res_uuid", Dec(idx)),
            KV("@ResourceID", Str(""))>>)>>)
    IN  ContentTemplate_init(<<KV("PhysicalBox", PhysicalBox),
                               KV("ImageObject", ImageObject),
                               KV("CGTransform", List(<<>>)),
                               KV("PathObject", List(<<>>)),
                               KV("TextObject", List(<<>>)),
                               KV("id_obj", NoneV)>>, o)

\* for block in content: the TextObject and ImageObject lists of one page
RECURSIVE page_blocks(_, _, _, _)
\* a rule of count repeats, one more than the advances between count characters
delta_rule_full(count, length) ==
    Chars(<<Word("g"), IntTok(count), NumTok(FloatDiv(length, IntToFloat(count)))>>)
\* f"g {count - 1} {length / count}"
delta_rule(count, length) ==
    Chars(<<Word("g"), IntTok(count - 1), NumTok(FloatDiv(length, IntToFloat(count)))>>)
page_blocks(content, i, TextObject, ImageObject) ==
    IF i > Len(content)
    THEN [TextObject |-> TextObject, ImageObject |-> ImageObject, exc |-> ""]
    ELSE
    LET block == content[i]
        bbox == block.bbox
        x0 == FloatDiv(IntToFloat(bbox[1]), OP)
        y0 == FloatDiv(IntToFloat(bbox[2]), OP)
        length == FloatDiv(IntToFloat(bbox[3] - bbox[1]), OP)
        height == FloatDiv(IntToFloat(bbox[4] - bbox[2]), OP)
        Boundary == Chars(<<NumTok(x0), NumTok(y0), NumTok(length), NumTok(height)>>)
        count == Len(block.text.x)
        size == FloatDiv(IntToFloat(block.size), OP)
    IN  IF block.type = "text"
        THEN IF count = 0
             THEN [TextObject |-> TextObject, ImageObject |-> ImageObject,
                   exc |-> "ZeroDivisionError"]
             ELSE page_blocks(content, i + 1,
                    Append(TextObject, Dict(<<
                        KV("@ID", PyInt(0)),
                        KV("res_uuid", block.res_uuid),
                        KV("@Font", Str("")),
                        KV("ofd:FillColor", Dict(<<KV("Value", Nums(<<156, 82, 35>>))>>)),
                        KV("ofd:TextCode", Dict(<<
                            KV("#text", block.text),
                            KV("@X", Nums(<<0>>)),
                            KV("@Y", Chars(<<NumTok(size)>>)),
                            KV("@DeltaX", delta_rule(count, length))>>)),
                        KV("@size", size),
                        KV("@Boundary", Boundary)>>)),
                    ImageObject)
        ELSE IF block.type = "img"
        THEN page_blocks(content, i + 1, TextObject,
                    Append(ImageObject, Dict(<<
                        KV("@ID", PyInt(0)),
                        KV("res_uuid", block.res_uuid),
                        KV("@Boundary", Boundary),
                        KV("@ResourceID", Str(""))>>)))
        ELSE page_blocks(content, i + 1, TextObject, ImageObject)

\* the Content template of page number idx (from 0) of pdf_info_list
pdf_content(content, idx, o, pfd_res_uuid_map) ==
    LET page_size == pfd_res_uuid_map.page_size[idx + 1]
        PhysicalBox == Chars(<<Zero, Zero, NumTok(IntToFloat(page_size[1])),
                               NumTok(IntToFloat(page_size[2]))>>)
    IN  IF idx + 1 > Len(pfd_res_uuid_map.page_size)
        THEN [final_json |-> NoneV, id_obj |-> o, exc |-> "IndexError"]
        ELSE With(page_blocks(content, 1, <<>>, <<>>),
                  LAMBDA b :
                     IF b.exc # ""
                     THEN [final_json |-> NoneV, id_obj |-> o, exc |-> b.exc]
                     ELSE ContentTemplate_init(<<KV("PhysicalBox", PhysicalBox),
                                                 KV("ImageObject", List(b.ImageObject)),
                                                 KV("CGTransform", List(<<>>)),
                                                 KV("PathObject", List(<<>>)),
                                                 KV("TextObject", List(b.TextObject)),
                                                 KV("id_obj", NoneV)>>, o))

\* the two loops of build_content_res, one page per step:
\* [list, id_obj, exc] with list the final_json of each Content template
RECURSIVE build_content_pages(_, _, _, _, _, _)
build_content_pages(pil_img_list, pdf_info_list, idx, list, o, pfd_res_uuid_map) ==
    LET n == IF pil_img_list # <<>> THEN Len(pil_img_list) ELSE Len(pdf_info_list)
    IN  IF idx >= n THEN [list |-> list, id_obj |-> o, exc |-> ""]
        ELSE With(IF pil_img_list # <<>>
                  THEN image_content(pil_img_list[idx + 1], idx, o)
                  ELSE pdf_content(pdf_info_list[idx + 1], idx, o, pfd_res_uuid_map),
                  LAMBDA conten :
                     IF conten.exc # ""
                     THEN [list |-> list, id_obj |-> conten.id_obj, exc |-> conten.exc]
                     ELSE build_content_pages(pil_img_list, pdf_info_list, idx + 1,
                                              Append(list, conten.final_json),
                                              conten.id_obj, pfd_res_uuid_map))

build_content_res(pil_img_list, pdf_info_list, o, pfd_res_uuid_map) ==
    build_content_pages(pil_img_list, pdf_info_list, 0, <<>>, o, pfd_res_uuid_map)

-----------------------------------------------------------------------------
(* OFDStructure: packaging (ofdtemplate.py).  The archive is the sequence   *)
(* of its members [path, doc, bytes, wf]: doc is the XML document of a      *)
(* member written by save(), bytes the content of a static resource, wf     *)
(* says that the content is well-formed XML.  Members are listed in the     *)
(* order in which packaging wrote their files.                               *)

NoElem == [tag |-> "", attrs |-> <<>>, text |-> NoneV, kids |-> <<>>]
XmlMember(path, final_json) ==
    [path |-> path, doc |-> unparse(final_json), bytes |-> NoneV, wf |-> TRUE]
BinMember(path, bytes) == [path |-> path, doc |-> NoElem, bytes |-> bytes, wf |-> FALSE]
\* str(base64.b64encode(bytes), "utf-8")
b64encode(bytes) == [bytes EXCEPT !.s = "b64"]

\* OFDStructure.__init__: a template that is missing is built from the
\* skeleton, with the allocator id_obj = CurId() made here
OFDStructure_init(ofd, document, document_res, public_res, content_res, res_static) ==
    With(IF content_res # <<>>
         THEN [final_json |-> NoneV, id_obj |-> CurId_init, exc |-> ""]
         ELSE ContentTemplate_init(<<KV("id_obj", NoneV)>>, CurId_init),
         LAMBDA own :
            [ofd |-> ofd,
             document |-> document,
             document_res |-> document_res,
             public_res |-> public_res,
             content_res |-> IF content_res # <<>> THEN content_res ELSE <<own.final_json>>,
             res_static |-> res_static,
             id_obj |-> own.id_obj])

\* OFDStructure.__call__: update_max_unit_id on the document (whose allocator
\* is o), then every member is written and the directory archived
OFDStructure_call(self, o) ==
    LET Doc_0 == Name("Doc_", 0)
        document == update_max_unit_id(self.document, o)
    IN  <<XmlMember(<<XmlFile("OFD")>>, self.ofd),
          XmlMember(<<Doc_0, XmlFile("Document")>>, document),
          XmlMember(<<Doc_0, XmlFile("DocumentRes")>>, self.document_res),
          XmlMember(<<Doc_0, XmlFile("PublicRes")>>, self.public_res)>>
        \o [idx \in 1..Len(self.content_res) |->
              XmlMember(<<Doc_0, Word("Pages"), Name("Page_", idx - 1), XmlFile("Content")>>,
                        self.content_res[idx])]
        \o [i \in 1..Len(self.res_static) |->
              BinMember(<<Doc_0, Word("Res")>> \o self.res_static[i].k.x,
                        self.res_static[i].v)]

-----------------------------------------------------------------------------
(* FileRead: the container reader (parser_ofd/file_deal.py).  A container   *)
(* is [zip, members]: zip says that the bytes are a zip archive.  The path  *)
(* map is the sequence of its items [k, v] in insertion order, k a path.    *)

unzip_path == Word("unzip_path")
\* "xml" in file
IsXmlName(tok) == tok.e = ".xml"

\* the items of the files found by os.walk, or the first failure
RECURSIVE walk_files(_, _, _)
walk_files(members, i, tree) ==
    IF i > Len(members) THEN [exc |-> "", file_tree |-> tree]
    ELSE LET m == members[i]
             abs_path == <<unzip_path>> \o m.path
         IN  IF ~IsXmlName(m.path[Len(m.path)])
             THEN walk_files(members, i + 1, Append(tree, [k |-> abs_path, v |-> b64encode(m.bytes)]))
             ELSE IF ~m.wf THEN [exc |-> "ExpatError", file_tree |-> tree]
             ELSE walk_files(members, i + 1,
                             Append(tree, [k |-> abs_path, v |-> parse(m.doc)]))

TreeHas(file_tree, key) == \E i \in 1..Len(file_tree) : file_tree[i].k = key
TreeGet(file_tree, key) ==
    file_tree[CHOOSE i \in 1..Len(file_tree) : file_tree[i].k = key].v

\* FileRead.__call__: unzip_file, then buld_file_tree.  zip_file and
\* unzip_dir say whether self.zip_path and self.unzip_path exist when the
\* call ends: unzip_file writes the archive file and extracts each member,
\* and the two are removed by the last statements of buld_file_tree
FileRead_call(ofd_f) ==
    LET w == walk_files(ofd_f.members, 1,
                        <<[k |-> <<Word("root")>>, v |-> Path(<<unzip_path>>)],
                          [k |-> <<Word("pdf_name")>>, v |-> Str("pdf_name")]>>)
        OFD_xml == <<unzip_path, XmlFile("OFD")>>
    IN  IF ~ofd_f.zip
        THEN [exc |-> "BadZipFile", file_tree |-> <<>>,
              zip_file |-> TRUE, unzip_dir |-> FALSE]
        ELSE IF w.exc # ""
        THEN [exc |-> w.exc, file_tree |-> w.file_tree,
              zip_file |-> TRUE, unzip_dir |-> ofd_f.members # <<>>]
        ELSE [exc |-> "",
              file_tree |-> Append(w.file_tree,
                  [k |-> <<Word("root_doc")>>,
                   v |-> IF TreeHas(w.file_tree, OFD_xml) THEN Path(OFD_xml)
                         ELSE Str("")]),
              zip_file |-> FALSE, unzip_dir |-> FALSE]

-----------------------------------------------------------------------------
(* FileParserBase.recursion_ext (parser_ofd/file_parser_base.py) *)

RECURSIVE recursion_ext(_, _, _)
RECURSIVE recursion_ext_items(_, _, _, _)
RECURSIVE recursion_ext_cells(_, _, _, _)

recursion_ext_cells(l, j, ext_list, key) ==
    IF j > Len(l.c) THEN ext_list
    ELSE recursion_ext_cells(l, j + 1, recursion_ext(l.c[j].v, ext_list, key), key)

recursion_ext_items(d, i, ext_list, key) ==
    IF i > Len(d.c) THEN ext_list
    ELSE LET k == d.c[i].k
             v == d.c[i].v
             e1 == IF k = key
                   THEN IF IsDict(v) \/ IsStr(v) THEN Append(ext_list, v)
                        ELSE IF IsList(v) THEN ext_list \o Items(v)
                        ELSE ext_list
                   ELSE IF IsDict(v) THEN recursion_ext(v, ext_list, key)
                   ELSE IF IsList(v) THEN recursion_ext_cells(v, 1, ext_list, key)
                   ELSE ext_list
         IN  recursion_ext_items(d, i + 1, e1, key)

\* the extended ext_list
recursion_ext(need_ext_obj, ext_list, key) ==
    IF IsDict(need_ext_obj)
    THEN recursion_ext_items(need_ext_obj, 1, ext_list, key)
    ELSE ext_list

-----------------------------------------------------------------------------
(* OFDParser.get_xml_obj (parser_ofd/ofd_parser.py).  The test              *)
(* "label in abs_p" on the two paths with their separators unified is       *)
(* modelled on path components: the components of the label occur, in a     *)
(* row, among those of the key.                                              *)

\* label.lstrip("./") on components: leading "", "." and ".." go
RECURSIVE lstrip(_)
lstrip(x) ==
    IF x # <<>> /\ x[1].w \in {"", ".", ".."} /\ x[1].i = <<>> /\ x[1].e = ""
    THEN lstrip(Tail(x))
    ELSE x

Components(label) ==
    CASE label.t = "path" -> label.x
      [] label.t = "str" -> <<Word(label.s)>>
      [] label.t = "dec" -> <<Name("", label.n)>>
      [] OTHER -> label.x

Infix(lab, key) ==
    \E i \in 0..(Len(key) - Len(lab)) : SubSeq(key, i + 1, i + Len(lab)) = lab

\* [exc, val]
get_xml_obj(file_tree, label) ==
    LET lab == lstrip(Components(label))
        hits == {i \in 1..Len(file_tree) : Infix(lab, file_tree[i].k)}
    IN  IF ~Truthy(label) THEN [exc |-> "AssertionError", val |-> NoneV]
        ELSE IF ~IsStr(label) THEN [exc |-> "AttributeError", val |-> NoneV]
        ELSE IF hits # {}
        THEN [exc |-> "",
              val |-> file_tree[CHOOSE i \in hits : \A j \in hits : i <= j].v]
        ELSE [exc |-> "", val |-> Str("")]

-----------------------------------------------------------------------------
(* The member parsers (parser_ofd/file_*_parser.py).  Each returns a record *)
(* with exc, the exception that ended it ("" if none).                       *)

\* OFDFileParser(xml_obj)()
OFDFileParser_call(xml_obj) ==
    [exc |-> IF Truthy(xml_obj) THEN "" ELSE "AssertionError",
     doc_root |-> recursion_ext(xml_obj, <<>>, "ofd:DocRoot"),
     signatures |-> recursion_ext(xml_obj, <<>>, "ofd:Signatures"),
     creator |-> recursion_ext(xml_obj, <<>>, "ofd:Creator"),
     creationDate |-> recursion_ext(xml_obj, <<>>, "ofd:CreationDate")]

\* DocumentFileParser.loc2page_no
loc2page_no(loc, idx) ==
    IF FirstDigits(loc).found THEN FirstDigits(loc).val ELSE idx

\* [i.get("@BaseLoc") if isinstance(i, dict) else i for i in l]
BaseLocs(l) == [i \in 1..Len(l) |-> IF IsDict(l[i]) THEN Get(l[i], "@BaseLoc") ELSE l[i]]

\* DocumentFileParser(xml_obj)(); page_id_map is the sequence of its items
\* [k, v], a later item for the same key replacing the earlier one
DocumentFileParser_call(xml_obj) ==
    LET physical_box == recursion_ext(xml_obj, <<>>, "ofd:PhysicalBox")
        page == recursion_ext(xml_obj, <<>>, "ofd:Page")
        tpls == recursion_ext(xml_obj, <<>>, "ofd:TemplatePage")
    IN  [exc |-> IF ~Truthy(xml_obj) THEN "AssertionError"
                 ELSE IF \E i \in 1..Len(page) : ~IsDict(page[i]) THEN "AttributeError"
                 ELSE IF \E i \in 1..Len(page) : ~IsStr(Get(page[i], "@BaseLoc"))
                      THEN "TypeError"
                 ELSE "",
         size |-> IF physical_box # <<>> THEN physical_box[1] ELSE Str(""),
         public_res |-> recursion_ext(xml_obj, <<>>, "ofd:PublicRes"),
         document_res |-> recursion_ext(xml_obj, <<>>, "ofd:DocumentRes"),
         tpls |-> BaseLocs(tpls),
         page |-> BaseLocs(page),
         page_id_map |-> [i \in 1..Len(page) |->
                            [k |-> Get(page[i], "@ID"),
                             v |-> loc2page_no(Get(page[i], "@BaseLoc"), i - 1)]],
         Annotations |-> recursion_ext(xml_obj, <<>>, "ofd:Annotations"),
         attachments |-> recursion_ext(xml_obj, <<>>, "ofd:Attachments"),
         custom_tag |-> recursion_ext(xml_obj, <<>>, "ofd:CustomTags")]

\* PublicResFileParser.normalize_font_name: spaces go, a style word gets "-"
\* in front; a name without spaces and style words is unchanged
normalize_font_name(font_name) ==
    IF ~IsStr(font_name) THEN Str("")
    ELSE CASE font_name = Str("Times New Roman Bold") -> Str("TimesNewRoman-Bold")
           [] font_name = Str("Times New Roman") -> Str("Times-Roman")
           [] font_name = Str("SimSun Bold") -> Str("SimSun-Bold")
           [] OTHER -> font_name

\* PublicResFileParser(xml_obj)(): the items [k, v] of the font table
PublicResFileParser_call(xml_obj) ==
    LET public_res == recursion_ext(xml_obj, <<>>, "ofd:Font")
    IN  [exc |-> IF ~Truthy(xml_obj) THEN "AssertionError"
                 ELSE IF \E i \in 1..Len(public_res) : ~IsDict(public_res[i])
                      THEN "AttributeError"
                 ELSE "",
         info |-> [i \in 1..Len(public_res) |->
                    [k |-> Get(public_res[i], "@ID"),
                     v |-> [FontName |-> normalize_font_name(Get(public_res[i], "@FontName")),
                            FontNameORI |-> Get(public_res[i], "@FontName"),
                            FamilyName |-> normalize_font_name(Get(public_res[i], "@FamilyName")),
                            FamilyNameORI |-> Get(public_res[i], "@FamilyName"),
                            Bold |-> Get(public_res[i], "@Bold"),
                            Serif |-> Get(public_res[i], "@Serif"),
                            FixedWidth |-> Get(public_res[i], "@FixedWidth"),
                            FontFile |-> Get(public_res[i], "ofd:FontFile"),
                            font_b64 |-> NoneV]]]]

\* d.get(key, "")
GetOr(d, key) == IF HasKey(d, key) THEN Get(d, key) ELSE Str("")

\* os.path.splitext(name)[-1].replace(".", "")
Suffix(name) ==
    IF name.t = "path" /\ name.x # <<>> THEN name.x[Len(name.x)].e ELSE ""

\* DocumentResFileParser(xml_obj)(): the items [k, v] of the image table
DocumentResFileParser_call(xml_obj) ==
    LET muti_media == recursion_ext(xml_obj, <<>>, "ofd:MultiMedia")
    IN  [exc |-> IF ~Truthy(xml_obj) THEN "AssertionError"
                 ELSE IF \E i \in 1..Len(muti_media) : ~IsDict(muti_media[i])
                      THEN "AttributeError"
                 ELSE IF \E i \in 1..Len(muti_media) :
                            ~IsStr(GetOr(muti_media[i], "ofd:MediaFile"))
                      THEN "TypeError"
                 ELSE "",
         info |-> [i \in 1..Len(muti_media) |->
                    [k |-> Get(muti_media[i], "@ID"),
                     v |-> [format |-> GetOr(muti_media[i], "@Format"),
                            wrap_pos |-> GetOr(muti_media[i], "@wrap_pos"),
                            type |-> GetOr(muti_media[i], "@Type"),
                            suffix |-> Suffix(GetOr(muti_media[i], "ofd:MediaFile")),
                            fileName |-> GetOr(muti_media[i], "ofd:MediaFile"),
                            imgb64 |-> NoneV]]]]

-----------------------------------------------------------------------------
(* ContentFileParser (parser_ofd/file_content_parser.py) *)

\* ParameterParser.__call__ for a key whose accepted type is dict
ofd_param(key, container) ==
    IF IsDict(Get(container, key)) THEN Get(container, key) ELSE Dict(<<>>)

\* d.get("@Value", "0 0 0")
ColorOf(d) == IF HasKey(d, "@Value") THEN Get(d, "@Value") ELSE Nums(<<0, 0, 0>>)

NoCell ==
    [ID |-> NoneV, pos |-> <<>>, text |-> NoneV, font |-> NoneV, size |-> Flt(0, 1),
     color |-> NoneV, DeltaY |-> NoneV, DeltaX |-> NoneV, CTM |-> NoneV,
     X |-> NoneV, Y |-> NoneV]

\* fetch_cell_info(row, TextObject): [exc, cell].  The optional entries
\* Glyphs_d and clips_pos of the cell are left out.
fetch_cell_info(row, TextObject) ==
    LET pos == FloatList(Get(row, "@Boundary"))
        size == FloatList(Get(row, "@Size"))
        color == ColorOf(ofd_param("ofd:FillColor", row))
    IN  IF ~HasKey(row, "@ID") \/ ~HasKey(row, "@Boundary") THEN [exc |-> "KeyError", cell |-> NoCell]
        ELSE IF ~IsStr(Get(row, "@Boundary")) THEN [exc |-> "AttributeError", cell |-> NoCell]
        ELSE IF pos.exc # "" THEN [exc |-> pos.exc, cell |-> NoCell]
        ELSE IF ~HasKey(row, "@Font") \/ ~HasKey(row, "@Size")
        THEN [exc |-> "KeyError", cell |-> NoCell]
        ELSE IF size.exc # "" \/ Len(size.val) # 1 THEN [exc |-> "ValueError", cell |-> NoCell]
        ELSE IF ~IsStr(color) THEN [exc |-> "AttributeError", cell |-> NoCell]
        ELSE [exc |-> "",
              cell |-> [ID |-> Get(row, "@ID"),
                        pos |-> pos.val,
                        text |-> PyStr(Get(TextObject, "#text")),
                        font |-> Get(row, "@Font"),
                        size |-> size.val[1],
                        color |-> color,
                        DeltaY |-> GetOr(TextObject, "@DeltaY"),
                        DeltaX |-> GetOr(TextObject, "@DeltaX"),
                        CTM |-> GetOr(row, "@CTM"),
                        X |-> GetOr(TextObject, "@X"),
                        Y |-> GetOr(TextObject, "@Y")]]

\* row.get("ofd:TextCode", {})
TextCodeOf(row) == IF HasKey(row, "ofd:TextCode") THEN Get(row, "ofd:TextCode") ELSE Dict(<<>>)

\* for _i in row.get("ofd:TextCode", {}) when that is a list
RECURSIVE text_codes(_, _, _, _)
text_codes(row, codes, j, text_list) ==
    IF j > Len(codes) THEN [exc |-> "", text_list |-> text_list]
    ELSE IF ~IsDict(codes[j]) THEN [exc |-> "AttributeError", text_list |-> text_list]
    ELSE IF ~Truthy(Get(codes[j], "#text")) THEN text_codes(row, codes, j + 1, text_list)
    ELSE LET r == fetch_cell_info(row, codes[j])
         IN  IF r.exc # "" THEN [exc |-> r.exc, text_list |-> text_list]
             ELSE text_codes(row, codes, j + 1, Append(text_list, r.cell))

\* for row in text
RECURSIVE text_rows(_, _, _)
text_rows(text, i, text_list) ==
    IF i > Len(text) THEN [exc |-> "", text_list |-> text_list]
    ELSE IF ~IsDict(text[i]) THEN [exc |-> "AttributeError", text_list |-> text_list]
    ELSE LET row == text[i]
             code == TextCodeOf(row)
             r == IF IsList(code) THEN text_codes(row, Items(code), 1, text_list)
                  ELSE IF IsDict(code) /\ Truthy(Get(code, "#text"))
                  THEN LET f == fetch_cell_info(row, code)
                       IN  [exc |-> f.exc,
                            text_list |-> IF f.exc = "" THEN Append(text_list, f.cell)
                                          ELSE text_list]
                  ELSE [exc |-> "", text_list |-> text_list]
         IN  IF r.exc # "" THEN r ELSE text_rows(text, i + 1, r.text_list)

\* for _i in line: a KeyError skips the line, any other exception is raised
RECURSIVE line_rows(_, _, _)
line_rows(line, i, line_list) ==
    IF i > Len(line) THEN [exc |-> "", line_list |-> line_list]
    ELSE IF ~IsDict(line[i]) THEN [exc |-> "AttributeError", line_list |-> line_list]
    ELSE LET _i == line[i]
             pos == FloatList(Get(_i, "@Boundary"))
             fill == ColorOf(ofd_param("ofd:FillColor", _i))
         IN  IF ~HasKey(_i, "@Boundary") THEN line_rows(line, i + 1, line_list)
             ELSE IF pos.exc # "" THEN [exc |-> pos.exc, line_list |-> line_list]
             ELSE IF ~IsStr(fill) THEN [exc |-> "AttributeError", line_list |-> line_list]
             ELSE line_rows(line, i + 1, Append(line_list,
                    [ID |-> GetOr(_i, "@ID"),
                     pos |-> pos.val,
                     LineWidth |-> GetOr(_i, "@LineWidth"),
                     AbbreviatedData |-> GetOr(_i, "ofd:AbbreviatedData"),
                     FillColor |-> fill,
                     StrokeColor |-> ColorOf(ofd_param("ofd:StrokeColor", _i))]))

\* for _i in img
RECURSIVE img_rows(_, _, _)
img_rows(img, i, img_list) ==
    IF i > Len(img) THEN [exc |-> "", img_list |-> img_list]
    ELSE IF ~IsDict(img[i]) THEN [exc |-> "AttributeError", img_list |-> img_list]
    ELSE LET _i == img[i]
             pos == FloatList(Get(_i, "@Boundary"))
         IN  IF ~HasKey(_i, "@Boundary") THEN [exc |-> "KeyError", img_list |-> img_list]
             ELSE IF pos.exc # "" THEN [exc |-> pos.exc, img_list |-> img_list]
             ELSE img_rows(img, i + 1, Append(img_list,
                    [CTM |-> GetOr(_i, "@CTM"),
                     ID |-> GetOr(_i, "ID"),
                     ResourceID |-> GetOr(_i, "@ResourceID"),
                     pos |-> pos.val]))

\* ContentFileParser(xml_obj)(): [exc, text_list, img_list, line_list]
ContentFileParser_call(xml_obj) ==
    LET failed(e) == [exc |-> e, text_list |-> <<>>, img_list |-> <<>>, line_list |-> <<>>]
    IN  IF ~Truthy(xml_obj) THEN failed("AssertionError")
        ELSE
        With(text_rows(recursion_ext(xml_obj, <<>>, "ofd:TextObject"), 1, <<>>), LAMBDA t :
        IF t.exc # "" THEN failed(t.exc)
        ELSE
        With(line_rows(recursion_ext(xml_obj, <<>>, "ofd:PathObject"), 1, <<>>), LAMBDA l :
        IF l.exc # "" THEN failed(l.exc)
        ELSE
        With(img_rows(recursion_ext(xml_obj, <<>>, "ofd:ImageObject"), 1, <<>>), LAMBDA m :
        IF m.exc # "" THEN failed(m.exc)
        ELSE [exc |-> "", text_list |-> t.text_list, img_list |-> m.img_list,
              line_list |-> l.line_list])))

-----------------------------------------------------------------------------
(* OFDParser.parser (parser_ofd/ofd_parser.py), stage by stage.  Each stage *)
(* returns exc, the exception that ended it ("" if none).  The containers   *)
(* read here declare no signature index and no annotations, so those two   *)
(* steps find nothing to do; they are not modelled.                         *)

\* OFD.xml, or the fixed default paths when it is not found
parser_root(file_tree) ==
    With(get_xml_obj(file_tree, TreeGet(file_tree, <<Word("root_doc")>>)), LAMBDA g :
    IF g.exc # "" THEN [exc |-> g.exc, doc_root_name |-> <<>>, signatures |-> <<>>]
    ELSE IF Truthy(g.val)
    THEN With(OFDFileParser_call(g.val), LAMBDA ofd_obj_res :
              [exc |-> "", doc_root_name |-> ofd_obj_res.doc_root,
               signatures |-> ofd_obj_res.signatures])
    ELSE [exc |-> "",
          doc_root_name |-> <<Path(<<Name("Doc_", 0), XmlFile("Document")>>)>>,
          signatures |-> <<Path(<<Name("Doc_", 0), Word("Signs"),
                                  XmlFile("Signatures")>>)>>])

\* [float(pos_i) for pos_i in s.split(" ") if re.match("[\d\.]", pos_i)]
FilterFloats(v) ==
    LET kept == IF v.t = "chars"
                THEN SelectSeq(v.x, LAMBDA tok : tok.w = "" /\ tok.i # <<>>)
                ELSE <<>>
    IN  IF ~IsStr(v) THEN [exc |-> "AttributeError", val |-> <<>>]
        ELSE IF \E i \in 1..Len(kept) : ~IsNumTok(kept[i])
        THEN [exc |-> "ValueError", val |-> <<>>]
        ELSE [exc |-> "", val |-> [i \in 1..Len(kept) |-> ParseFloat(kept[i])]]

\* the document-level size: any failure leaves it empty
default_page_size_of(doc_size) ==
    IF ~Truthy(doc_size) THEN <<>>
    ELSE With(FilterFloats(doc_size), LAMBDA f : IF f.exc = "" THEN f.val ELSE <<>>)

\* info[id] = v for the i-th item of a table
SetInfo(info, i, v) ==
    [j \in 1..Len(info) |-> IF j = i THEN [k |-> info[j].k, v |-> v] ELSE info[j]]

\* the font table, each font file found in the path map attached
RECURSIVE attach_fonts(_, _, _)
attach_fonts(file_tree, info, i) ==
    IF i > Len(info) THEN [exc |-> "", info |-> info]
    ELSE LET file_name == info[i].v.FontFile
         IN  IF ~Truthy(file_name) THEN attach_fonts(file_tree, info, i + 1)
             ELSE With(get_xml_obj(file_tree, file_name), LAMBDA g :
                  IF g.exc # "" THEN [exc |-> g.exc, info |-> info]
                  ELSE attach_fonts(file_tree,
                           IF Truthy(g.val)
                           THEN SetInfo(info, i, [info[i].v EXCEPT !.font_b64 = g.val])
                           ELSE info,
                           i + 1))

parser_fonts(file_tree, public_res_name) ==
    IF public_res_name = <<>> THEN [exc |-> "", info |-> <<>>]
    ELSE With(get_xml_obj(file_tree, public_res_name[1]), LAMBDA g :
         IF g.exc # "" THEN [exc |-> g.exc, info |-> <<>>]
         ELSE With(PublicResFileParser_call(g.val), LAMBDA p :
              IF p.exc # "" THEN [exc |-> p.exc, info |-> <<>>]
              ELSE attach_fonts(file_tree, p.info, 1)))

\* the bytes of an image of w x h in a format, and bytes that are no image
ImageData(fmt, w, h) == Chars(<<Name(fmt, w), Name("x", h)>>)
Junk == Chars(<<Word("junk")>>)
\* Image.open(io.BytesIO(base64.b64decode(b))) identifies an image
Decodes(b) ==
    /\ b.t = "chars" /\ b.s = "b64" /\ Len(b.x) = 2
    /\ b.x[1].w \in {"png", "jpg", "bmp", "tif", "gif"}
\* the image saved in another format, base64-encoded
SavedAs(b, fmt) ==
    b64encode(Chars(<<[w |-> fmt, i |-> b.x[1].i, f |-> <<>>, e |-> ""], b.x[2]>>))
\* fileName.replace(old, new) for the extensions of a media file name
ReplaceExt(fileName, old, new) ==
    IF fileName.t # "path" THEN fileName
    ELSE Path([i \in 1..Len(fileName.x) |->
                 IF fileName.x[i].e = old
                 THEN [w |-> fileName.x[i].w, i |-> fileName.x[i].i,
                       f |-> fileName.x[i].f, e |-> new]
                 ELSE fileName.x[i]])

\* the body shared by bmp2jpg, tif2jpg and gif2jpg: the file is read again
\* from the path map, opened and saved as JPEG; old is the extension that
\* the new file name replaces.  [exc, img_d]
to_jpeg(file_tree, img_d, old) ==
    With(get_xml_obj(file_tree, img_d.fileName), LAMBDA g :
    IF g.exc # "" THEN [exc |-> g.exc, img_d |-> img_d]
    ELSE IF ~IsStr(g.val) THEN [exc |-> "TypeError", img_d |-> img_d]
    ELSE IF ~Decodes(g.val) THEN [exc |-> "UnidentifiedImageError", img_d |-> img_d]
    ELSE [exc |-> "",
          img_d |-> [img_d EXCEPT !.fileName = ReplaceExt(img_d.fileName, old, ".jpg"),
                                  !.suffix = ".jpg",
                                  !.format = Str("jpg"),
                                  !.imgb64 = SavedAs(g.val, "jpg")]])

bmp2jpg(file_tree, img_d) == to_jpeg(file_tree, img_d, ".bmp")
tif2jpg(file_tree, img_d) == to_jpeg(file_tree, img_d, ".tif")
\* gif2jpg replaces ".bmp" in the name of a gif file
gif2jpg(file_tree, img_d) == to_jpeg(file_tree, img_d, ".bmp")

\* what is at self.jbig2dec_path: "absent", a tool that "fails", a tool
\* that "converts"
jbig2dec == disk.jbig2dec

\* jb22png: returns at once without the tool; else the bytes are written to
\* fileName, the tool is run and both files are removed.  Media files are
\* named by a bare file name.  [exc, img_d]
jb22png(img_d) ==
    IF jbig2dec = "absent" THEN [exc |-> "", img_d |-> img_d]
    ELSE IF ~IsStr(img_d.imgb64) THEN [exc |-> "TypeError", img_d |-> img_d]
    ELSE IF jbig2dec = "converts" /\ img_d.imgb64.t = "chars" /\ img_d.imgb64.s = "b64"
            /\ Len(img_d.imgb64.x) = 2 /\ img_d.imgb64.x[1].w = "jb2"
    THEN [exc |-> "",
          img_d |-> [img_d EXCEPT !.fileName = ReplaceExt(img_d.fileName, ".jb2", ".png"),
                                  !.suffix = ".png",
                                  !.format = Str("png"),
                                  !.imgb64 = SavedAs(img_d.imgb64, "png")]]
    ELSE [exc |-> "", img_d |-> img_d]

\* the if / elif chain on img_v["suffix"]
normalize_image(file_tree, img_v) ==
    CASE img_v.suffix = ".jb2" -> jb22png(img_v)
      [] img_v.suffix = ".bmp" -> bmp2jpg(file_tree, img_v)
      [] img_v.suffix = ".tif" -> tif2jpg(file_tree, img_v)
      [] img_v.suffix = ".gif" -> gif2jpg(file_tree, img_v)
      [] OTHER -> [exc |-> "", img_d |-> img_v]

\* the image table, each media file's path-map entry attached and the
\* media of suffix jb2, bmp, tif and gif converted
RECURSIVE attach_images(_, _, _)
attach_images(file_tree, info, i) ==
    IF i > Len(info) THEN [exc |-> "", info |-> info]
    ELSE With(get_xml_obj(file_tree, info[i].v.fileName), LAMBDA g :
         IF g.exc # "" THEN [exc |-> g.exc, info |-> info]
         ELSE With(normalize_image(file_tree, [info[i].v EXCEPT !.imgb64 = g.val]),
                   LAMBDA img :
              IF img.exc # "" THEN [exc |-> img.exc, info |-> info]
              ELSE attach_images(file_tree, SetInfo(info, i, img.img_d), i + 1)))

parser_images(file_tree, document_res_name) ==
    IF document_res_name = <<>> THEN [exc |-> "", info |-> <<>>]
    ELSE With(get_xml_obj(file_tree, document_res_name[1]), LAMBDA g :
         IF g.exc # "" THEN [exc |-> g.exc, info |-> <<>>]
         ELSE With(DocumentResFileParser_call(g.val), LAMBDA p :
              IF p.exc # "" THEN [exc |-> p.exc, info |-> <<>>]
              ELSE attach_images(file_tree, p.info, 1)))

\* d.get(key, default)
GetDefault(d, key, default) == IF HasKey(d, key) THEN Get(d, key) ELSE default

\* the list comprehension over the page's ofd:Page / ofd:Area / ofd:PhysicalBox
page_size_of(page_xml_obj) ==
    LET Page == GetDefault(page_xml_obj, "ofd:Page", Dict(<<>>))
        Area == GetDefault(Page, "ofd:Area", Dict(<<>>))
    IN  IF ~IsDict(page_xml_obj) \/ ~IsDict(Page) \/ ~IsDict(Area)
        THEN [exc |-> "AttributeError", val |-> <<>>]
        ELSE FilterFloats(GetDefault(Area, "ofd:PhysicalBox", Str("")))

\* page_info_d[pg_no] = page_info
put_page(page_info_d, pg_no, page_info) ==
    IF \E i \in 1..Len(page_info_d) : page_info_d[i].k = pg_no
    THEN [i \in 1..Len(page_info_d) |->
            IF page_info_d[i].k = pg_no THEN [k |-> pg_no, v |-> page_info]
            ELSE page_info_d[i]]
    ELSE Append(page_info_d, [k |-> pg_no, v |-> page_info])

\* the loop over the pages.  page_size_details is the sequence of the lists
\* appended so far, each [vals, extra]: extra counts the [] that the except
\* branch appended to that list object later.  page_size is the loop's local
\* variable: bound says that it was ever assigned, alias is the position in
\* page_size_details of the list object it names (0 if that object is not
\* in page_size_details).
RECURSIVE parser_pages(_, _, _, _, _, _)
parser_pages(file_tree, page_name, index, page_size_details, page_size, page_info_d) ==
    IF index >= Len(page_name)
    THEN [exc |-> "", page_size_details |-> page_size_details, page_info_d |-> page_info_d]
    ELSE
    LET _page == page_name[index + 1]
        failed(e) == [exc |-> e, page_size_details |-> page_size_details,
                      page_info_d |-> page_info_d]
    IN
    With(get_xml_obj(file_tree, _page), LAMBDA g :
    IF g.exc # "" THEN failed(g.exc)
    ELSE
    With(page_size_of(g.val), LAMBDA sz :
    IF sz.exc # "" /\ ~page_size.bound THEN failed("UnboundLocalError")
    ELSE
    With(ContentFileParser_call(g.val), LAMBDA page_info :
    LET kept == sz.exc = "" /\ Len(sz.val) >= 2
        details == IF sz.exc = ""
                   THEN Append(page_size_details,
                               [vals |-> IF kept THEN sz.val ELSE <<>>, extra |-> 0])
                   ELSE IF page_size.alias > 0
                   THEN [j \in 1..Len(page_size_details) |->
                           IF j = page_size.alias
                           THEN [vals |-> page_size_details[j].vals,
                                 extra |-> page_size_details[j].extra + 1]
                           ELSE page_size_details[j]]
                   ELSE page_size_details
        local == IF sz.exc = ""
                 THEN [bound |-> TRUE,
                       alias |-> IF kept THEN Len(page_size_details) + 1 ELSE 0]
                 ELSE page_size
    IN  IF page_info.exc # "" THEN failed(page_info.exc)
        ELSE IF ~IsStr(_page) THEN failed("TypeError")
        ELSE With(FirstDigits(_page), LAMBDA digits :
                  parser_pages(file_tree, page_name, index + 1, details, local,
                               put_page(page_info_d,
                                        IF digits.found THEN digits.val ELSE index,
                                        page_info))))))

\* a < b on floats
FloatLt(a, b) == a.n * b.d < b.n * a.d

\* the key (float(pos[1]), float(pos[0])) of one item below that of another
PosBelow(a, b) ==
    \/ FloatLt(a.pos[2], b.pos[2])
    \/ (a.pos[2] = b.pos[2] /\ FloatLt(a.pos[1], b.pos[1]))

\* list.sort(key=...): stable, [exc, val]; the key of an item whose pos has
\* fewer than two entries raises
RECURSIVE sorted_by_pos(_, _, _)
sorted_by_pos(items, i, done) ==
    IF i > Len(items) THEN done
    ELSE LET at == Cardinality({j \in 1..Len(done) : ~PosBelow(items[i], done[j])})
         IN  sorted_by_pos(items, i + 1,
                 SubSeq(done, 1, at) \o <<items[i]>> \o SubSeq(done, at + 1, Len(done)))

sort_by_pos(items) ==
    IF \E i \in 1..Len(items) : Len(items[i].pos) < 2
    THEN [exc |-> "IndexError", val |-> items]
    ELSE [exc |-> "", val |-> sorted_by_pos(items, 1, <<>>)]

\* pg_no as the loop over the pages leaves it: [bound, val]
last_pg_no(page_name) ==
    IF page_name = <<>> THEN [bound |-> FALSE, val |-> 0]
    ELSE With(FirstDigits(page_name[Len(page_name)]), LAMBDA digits :
              [bound |-> TRUE,
               val |-> IF digits.found THEN digits.val ELSE Len(page_name) - 1])

HasPage(page_info_d, no) == \E i \in 1..Len(page_info_d) : page_info_d[i].k = no
PageOf(page_info_d, no) ==
    page_info_d[CHOOSE i \in 1..Len(page_info_d) : page_info_d[i].k = no].v

\* the three extend and sort statements on the lists of page to; an
\* exception leaves the lists as they are at that statement
merge_tpl(page_info_d, to, tpl_info) ==
    LET page == PageOf(page_info_d, to)
    IN
    With(sort_by_pos(page.text_list \o tpl_info.text_list), LAMBDA text :
    IF text.exc # ""
    THEN [exc |-> text.exc,
          page_info_d |-> put_page(page_info_d, to, [page EXCEPT !.text_list = text.val])]
    ELSE
    With(sort_by_pos(page.img_list \o tpl_info.img_list), LAMBDA img :
    IF img.exc # ""
    THEN [exc |-> img.exc,
          page_info_d |-> put_page(page_info_d, to,
                             [page EXCEPT !.text_list = text.val, !.img_list = img.val])]
    ELSE
    With(sort_by_pos(page.line_list \o tpl_info.line_list), LAMBDA line :
    [exc |-> line.exc,
     page_info_d |-> put_page(page_info_d, to,
                        [page EXCEPT !.text_list = text.val, !.img_list = img.val,
                                     !.line_list = line.val])])))

\* the loop over the template pages: the lists of a template whose number
\* is a key of page_info_d go to page_info_d[pg_no]; a template of another
\* number is stored and then sorted, which a dict cannot be
RECURSIVE parser_tpls(_, _, _, _, _)
parser_tpls(file_tree, tpls_name, index, pg_no, page_info_d) ==
    IF index >= Len(tpls_name) THEN [exc |-> "", page_info_d |-> page_info_d]
    ELSE
    LET _tpl == tpls_name[index + 1]
        failed(e) == [exc |-> e, page_info_d |-> page_info_d]
    IN
    With(get_xml_obj(file_tree, _tpl), LAMBDA g :
    IF g.exc # "" THEN failed(g.exc)
    ELSE
    With(ContentFileParser_call(g.val), LAMBDA tpl_info :
    IF tpl_info.exc # "" THEN failed(tpl_info.exc)
    ELSE IF ~IsStr(_tpl) THEN failed("TypeError")
    ELSE
    With(FirstDigits(_tpl), LAMBDA digits :
    LET tpl_no == IF digits.found THEN digits.val ELSE index
    IN  IF HasPage(page_info_d, tpl_no)
        THEN IF ~pg_no.bound THEN failed("UnboundLocalError")
             ELSE With(merge_tpl(page_info_d, pg_no.val, tpl_info), LAMBDA merged :
                  IF merged.exc # "" THEN merged
                  ELSE parser_tpls(file_tree, tpls_name, index + 1, pg_no,
                                   merged.page_info_d))
        ELSE [exc |-> "AttributeError",
              page_info_d |-> put_page(page_info_d, tpl_no, tpl_info)])))

\* OFDParser.parser: [exc, doc_list]
parser(file_tree) ==
    LET failed(e) == [exc |-> e, doc_list |-> <<>>]
    IN
    With(parser_root(file_tree), LAMBDA root :
    IF root.exc # "" THEN failed(root.exc)
    ELSE IF root.doc_root_name = <<>> THEN failed("IndexError")
    ELSE
    With(get_xml_obj(file_tree, root.doc_root_name[1]), LAMBDA g :
    IF g.exc # "" THEN failed(g.exc)
    ELSE
    With(DocumentFileParser_call(g.val), LAMBDA doc_root_info :
    IF doc_root_info.exc # "" THEN failed(doc_root_info.exc)
    ELSE
    With(parser_fonts(file_tree, doc_root_info.public_res), LAMBDA fonts :
    IF fonts.exc # "" THEN failed(fonts.exc)
    ELSE
    With(parser_images(file_tree, doc_root_info.document_res), LAMBDA images :
    IF images.exc # "" THEN failed(images.exc)
    ELSE
    With(parser_pages(file_tree, doc_root_info.page, 0, <<>>,
                      [bound |-> FALSE, alias |-> 0], <<>>), LAMBDA pages :
    IF pages.exc # "" THEN failed(pages.exc)
    ELSE
    With(parser_tpls(file_tree, doc_root_info.tpls, 0, last_pg_no(doc_root_info.page),
                     pages.page_info_d), LAMBDA tpls :
    IF tpls.exc # "" THEN failed(tpls.exc)
    ELSE [exc |-> "",
          doc_list |-> <<[default_page_size |-> default_page_size_of(doc_root_info.size),
                          page_size |-> pages.page_size_details,
                          pdf_name |-> TreeGet(file_tree, <<Word("pdf_name")>>),
                          doc_no |-> 0,
                          images |-> images.info,
                          page_id_map |-> doc_root_info.page_id_map,
                          fonts |-> fonts.info,
                          page_info |-> tpls.page_info_d]>>])))))))

\* OFDParser.__call__: FileRead(...)() then parser()
OFDParser_call(ofd_f) ==
    With(FileRead_call(ofd_f), LAMBDA r :
         IF r.exc # "" THEN [exc |-> r.exc, doc_list |-> <<>>] ELSE parser(r.file_tree))

-----------------------------------------------------------------------------
(* The PDF content extraction module (draw/pdf_parse.py, class DPFParser)   *)
(* is imported by draw_ofd.py but is not in the source tree; it is modelled *)
(* from its contract.  A PDF is [none, pages]: none says that no document   *)
(* was given; a page is [size, blocks] with size <<w, h>> in points.        *)

NoPdf == [none |-> TRUE, pages |-> <<>>]
Pdf(pages) == [none |-> FALSE, pages |-> pages]

\* to_img: one image per page in page order, at zoom 2.  What it does when
\* no document is given is not fixed by the contract: it raises, or
\* (lenient) it returns no images.
to_img(pdf_bytes, lenient) ==
    IF ~pdf_bytes.none
    THEN [exc |-> "",
          val |-> [i \in 1..Len(pdf_bytes.pages) |->
                     <<2 * pdf_bytes.pages[i].size[1], 2 * pdf_bytes.pages[i].size[2]>>]]
    ELSE IF lenient THEN [exc |-> "", val |-> <<>>]
    ELSE [exc |-> "FileDataError", val |-> <<>>]

\* the blocks of all pages, in order
RECURSIVE all_blocks(_, _)
all_blocks(pages, i) ==
    IF i > Len(pages) THEN <<>> ELSE pages[i].blocks \o all_blocks(pages, i + 1)

\* the items of a sub-map of resource_uuid_map: one per res_uuid of the
\* blocks of the given type, in the order of first occurrence
RECURSIVE res_items(_, _, _, _)
res_items(blocks, i, type, items) ==
    IF i > Len(blocks) THEN items
    ELSE res_items(blocks, i + 1, type,
            IF blocks[i].type = type
               /\ \A j \in 1..Len(items) : items[j].k # blocks[i].res_uuid
            THEN Append(items, [k |-> blocks[i].res_uuid, v |-> blocks[i].res])
            ELSE items)

\* extract_text_with_details: (pdf_info_list, resource_uuid_map)
extract_text_with_details(pdf_bytes) ==
    [pdf_info_list |-> [i \in 1..Len(pdf_bytes.pages) |-> pdf_bytes.pages[i].blocks],
     pfd_res_uuid_map |->
        [given |-> TRUE,
         img |-> res_items(all_blocks(pdf_bytes.pages, 1), 1, "img", <<>>),
         font |-> res_items(all_blocks(pdf_bytes.pages, 1), 1, "text", <<>>),
         page_size |-> [i \in 1..Len(pdf_bytes.pages) |-> pdf_bytes.pages[i].size]]]

-----------------------------------------------------------------------------
(* OFDWrite.__call__ (draw_ofd.py): [exc, ofd_byte], ofd_byte the container *)
(* [zip, members] that OFDStructure archived.                                *)

NoPackage == [zip |-> FALSE, members |-> <<>>]

OFDWrite_call(pdf_bytes, pil_img_list, optional_text, lenient) ==
    LET failed(e) == [exc |-> e, ofd_byte |-> NoPackage]
        extracted == extract_text_with_details(pdf_bytes)
        res_static(pfd_res_uuid_map) ==
            [i \in 1..Len(pfd_res_uuid_map.img) |->
                [k |-> ImageName(pfd_res_uuid_map.img[i].k),
                 v |-> pfd_res_uuid_map.img[i].v]]
        \* the builds, in the order of the calls, and the packaging
        package(n, PhysicalBox, public_map, pfd_res_uuid_map, page_pil_img_list,
                pdf_info_list) ==
            With(build_ofd_entrance(CurId_init), LAMBDA ofd_entrance :
            IF ofd_entrance.exc # "" THEN failed(ofd_entrance.exc)
            ELSE IF page_pil_img_list = <<>> /\ ~optional_text
            THEN failed("UnboundLocalError")
            ELSE
            With(build_document(n, ofd_entrance.id_obj, PhysicalBox), LAMBDA document :
            IF document.exc # "" THEN failed(document.exc)
            ELSE
            With(build_public_res(document.id_obj, public_map), LAMBDA public_res :
            IF public_res.exc # "" THEN failed(public_res.exc)
            ELSE
            With(build_document_res(n, public_res.id_obj, pfd_res_uuid_map),
                 LAMBDA document_res :
            IF document_res.exc # "" THEN failed(document_res.exc)
            ELSE
            With(build_content_res(page_pil_img_list, pdf_info_list, document_res.id_obj,
                                   pfd_res_uuid_map), LAMBDA content_res_list :
            IF content_res_list.exc # "" THEN failed(content_res_list.exc)
            ELSE
            With(OFDStructure_init(ofd_entrance.final_json, document.final_json,
                                   document_res.final_json, public_res.final_json,
                                   content_res_list.list, res_static(pfd_res_uuid_map)),
                 LAMBDA structure :
            [exc |-> "",
             ofd_byte |-> [zip |-> TRUE,
                           members |-> OFDStructure_call(structure,
                                                         content_res_list.id_obj)]]))))))
    IN
    With(IF pil_img_list # <<>> THEN [exc |-> "", val |-> pil_img_list]
         ELSE IF optional_text THEN [exc |-> "", val |-> <<>>]
         ELSE to_img(pdf_bytes, lenient), LAMBDA imgs :
    IF imgs.exc # "" THEN failed(imgs.exc)
    ELSE
    With([i \in 1..Len(imgs.val) |-> page_pil_img(imgs.val[i])], LAMBDA page_pil_img_list :
    IF page_pil_img_list # <<>>
    THEN package(Len(page_pil_img_list),
                 Chars(<<Zero, Zero, NumTok(page_pil_img_list[1].w),
                         NumTok(page_pil_img_list[1].h)>>),
                 NoMap,
                 [given |-> TRUE,
                  img |-> [idx \in 1..Len(page_pil_img_list) |->
                             [k |-> Dec(idx - 1), v |-> page_pil_img_list[idx].bytes]],
                  font |-> <<>>, page_size |-> <<>>],
                 page_pil_img_list, <<>>)
    ELSE package(Len(extracted.pdf_info_list), Nums(<<0, 0, 140, 90>>),
                 extracted.pfd_res_uuid_map, extracted.pfd_res_uuid_map,
                 <<>>, extracted.pdf_info_list)))

-----------------------------------------------------------------------------
(* bounds *)

MaxCalls == 6        \* get_id calls made on the allocator under test
MaxPages == 2        \* pages of a PDF, images of an image list
MaxNodes == 3        \* content nodes of a page handed to the content parser
MaxMedia == 2        \* media files of a document's resource table
MaxConversions == 2  \* engines made in one process
MaxKnown == 4        \* names in the known-fonts list of an engine
MaxParts == 3        \* components of a location
MaxRule == 3         \* tokens of a Delta rule
MaxText == 4         \* characters of a text run
MaxBuilt == 3        \* templates built with one allocator
UUIDs == {7, 8}      \* res_uuid tokens
MapIds == {1, 2, 3}  \* ids recorded by add_uuid_map in the allocator test

\* the sequences over S of length at most n
SeqsUpTo(S, n) == UNION {[1..k -> S] : k \in 0..n}

\* pixel sizes of the images handed to jpg2ofd
ImageSizes == {<<480, 240>>, <<100, 50>>}
ImageLists == SeqsUpTo(ImageSizes, MaxPages)

\* the pages of the PDFs handed to pdf2ofd: no block, one text block or one
\* image block
TextBlock(u) ==
    [type |-> "text", res_uuid |-> Dec(u), res |-> Str("SimSun"),
     bbox |-> <<48, 24, 144, 48>>, text |-> Text(2), size |-> 12]
ImgBlock(u) ==
    [type |-> "img", res_uuid |-> Dec(u), res |-> pil_2_bytes(<<u, u>>),
     bbox |-> <<0, 0, 96, 48>>, text |-> Text(0), size |-> 0]
PdfPages ==
    {[size |-> <<240, 120>>, blocks |-> b] :
        b \in {<<>>} \cup {<<TextBlock(u)>> : u \in UUIDs} \cup {<<ImgBlock(u)>> : u \in UUIDs}}
Pdfs == {Pdf(p) : p \in SeqsUpTo(PdfPages, MaxPages)}

-----------------------------------------------------------------------------
(* The allocator on its own *)

-----------------------------------------------------------------------------
(* OFDStructure.__call__ step by step (draw/ofdtemplate.py), for two calls  *)
(* that overlap.  A working directory is [made, page, files]: made says     *)
(* that Doc_0, Doc_0/Pages and Doc_0/Res exist, page is the set of the idx  *)
(* whose Pages/Page_idx exists, files[f] is the session whose content the   *)
(* file f holds (0: no such file).  Session 1 packages one page and one     *)
(* static resource, session 2 two pages and no resource.  Directory 0 is    *)
(* ./test, directory p the temporary directory of session p.  The output file "test.ofd" is a name in the current       *)
(* directory: linked is the file that the name refers to (0: none), store   *)
(* the content of each file, fd[p] the file that session p holds open.      *)

Sessions == {1, 2}
Other(p) == 3 - p
TreeFiles == {"OFD.xml", "Document.xml", "Content.xml", "Page_1/Content.xml",
              "Res/Image_0.jpg"}
\* the Content.xml of page idx
PageFile(idx) == IF idx = 0 THEN "Content.xml" ELSE "Page_1/Content.xml"
\* len(self.content_res) and the keys of self.res_static of session p
ContentCount(p) == p
StaticNames(p) == IF p = 1 THEN {"Res/Image_0.jpg"} ELSE {}
\* the files that the call of session p writes
FilesOf(p) ==
    {"OFD.xml", "Document.xml"} \cup {PageFile(idx) : idx \in 0..(ContentCount(p) - 1)}
        \cup StaticNames(p)

EmptyDir == [made |-> FALSE, page |-> {}, files |-> [f \in TreeFiles |-> 0]]
\* the bytes of a file: kind is "none" (not written), "empty" (opened for
\* writing), "zip" (one archive, of the files given) or "garbled" (two
\* archives written over each other)
Bytes(kind, files) == [kind |-> kind, files |-> files]
NoBytes == Bytes("none", EmptyDir.files)
\* the archive of the files that session p serialized
Own(p) == Bytes("zip", [f \in TreeFiles |-> IF f \in FilesOf(p) THEN p ELSE 0])

NoPack ==
    [test |-> TRUE,
     at |-> [p \in Sessions |-> "idle"],
     dir |-> [d \in 0..2 |-> EmptyDir],
     linked |-> 0,
     store |-> [i \in 1..2 |-> NoBytes],
     fd |-> [p \in Sessions |-> 0],
     overlap |-> [p \in Sessions |-> FALSE],
     result |-> [p \in Sessions |-> [exc |-> "", content |-> NoBytes]]]

\* temp_dir: ./test when test is set, else the session's own t_dir
temp_dir(test, p) == IF test THEN 0 ELSE p

\* nothing is removed from the directory
keep_dir(d) == d

\* the files are removed, the directories stay
clear_files_only(d) == [made |-> d.made, page |-> d.page, files |-> EmptyDir.files]

\* _clear_dir: every entry of the directory is removed
clear_dir(d) == EmptyDir

\* os.mkdir of Doc_0, Doc_0/Pages, Doc_0/Res: [exc, dir]
mkdir_doc(d) ==
    IF d.made THEN [exc |-> "FileExistsError", dir |-> d]
    ELSE [exc |-> "", dir |-> [d EXCEPT !.made = TRUE]]

\* the file f holds what session p serialized
Saved(d, f, p) ==
    [d EXCEPT !.files = [g \in TreeFiles |-> IF g = f THEN p ELSE d.files[g]]]

\* self.ofd.save(temp_dir/OFD.xml)
save_root(d, p) == [exc |-> "", dir |-> Saved(d, "OFD.xml", p)]

\* the saves of Document.xml, DocumentRes.xml, PublicRes.xml into Doc_0
save_doc(d, p) ==
    IF ~d.made THEN [exc |-> "FileNotFoundError", dir |-> d]
    ELSE [exc |-> "", dir |-> Saved(d, "Document.xml", p)]

\* for idx, page in enumerate(self.content_res): os.mkdir(Pages/Page_idx)
\* and the save of its Content.xml
RECURSIVE save_pages_from(_, _, _)
save_pages_from(d, p, idx) ==
    IF idx >= ContentCount(p) THEN [exc |-> "", dir |-> d]
    ELSE IF ~d.made THEN [exc |-> "FileNotFoundError", dir |-> d]
    ELSE IF idx \in d.page THEN [exc |-> "FileExistsError", dir |-> d]
    ELSE save_pages_from(
             Saved([made |-> d.made, page |-> d.page \cup {idx}, files |-> d.files],
                   PageFile(idx), p),
             p, idx + 1)
save_pages(d, p) == save_pages_from(d, p, 0)

\* for k, v in self.res_static.items(): the file Doc_0/Res/k is written
save_static(d, p) ==
    IF StaticNames(p) = {} THEN [exc |-> "", dir |-> d]
    ELSE IF ~d.made THEN [exc |-> "FileNotFoundError", dir |-> d]
    ELSE [exc |-> "",
          dir |-> [made |-> d.made, page |-> d.page,
                   files |-> [g \in TreeFiles |->
                                IF g \in StaticNames(p) THEN p ELSE d.files[g]]]]

\* zipfile.ZipFile("test.ofd", "w"): the file under the name is truncated,
\* or a new file is made under the name: [linked, store, fd]
zip_open(linked, store, p) ==
    LET i == IF linked # 0 THEN linked ELSE p
    IN  [linked |-> i,
         store |-> [j \in 1..2 |-> IF j = i THEN Bytes("empty", EmptyDir.files)
                                    ELSE store[j]],
         fd |-> i]

\* os.walk(temp_dir), zip.write of every file found and zip.close(), on the
\* file that the session holds open: the content of that file afterwards
zip_write(held, d) ==
    IF held.kind = "empty" THEN Bytes("zip", d.files)
    ELSE Bytes("garbled", EmptyDir.files)

\* open("test.ofd", "rb").read(): [exc, content]
read_back(linked, store) ==
    IF linked = 0 THEN [exc |-> "FileNotFoundError", content |-> NoBytes]
    ELSE [exc |-> "", content |-> store[linked]]

\* if os.path.exists("test.ofd"): os.remove("test.ofd")
remove_output(linked) == 0

\* session p takes a step: it is now at `to`, and a session in the middle of
\* its call while the other takes a step has overlapped it
Stepped(k, p, to) ==
    LET busy(q) == k.at[q] \notin {"idle", "done", "raised"}
    IN  [k EXCEPT !.at = [q \in Sessions |-> IF q = p THEN to ELSE k.at[q]],
                  !.overlap = [q \in Sessions |->
                                 k.overlap[q] \/ (IF q = p THEN busy(Other(p))
                                                  ELSE busy(q))]]
SetDir(k, i, d) == [k EXCEPT !.dir = [j \in 0..2 |-> IF j = i THEN d ELSE k.dir[j]]]
Raised(k, p, e) ==
    [Stepped(k, p, "raised") EXCEPT
        !.result = [q \in Sessions |-> IF q = p THEN [exc |-> e, content |-> NoBytes]
                                       ELSE k.result[q]]]
\* a step on the working directory: r is [exc, dir]
DirStep(k, p, r, to) ==
    IF r.exc # "" THEN Raised(k, p, r.exc)
    ELSE SetDir(Stepped(k, p, to), temp_dir(k.test, p), r.dir)

NoOut == [exc |-> "", doc_list |-> <<>>]
NoFiles == [zip_file |-> FALSE, unzip_dir |-> FALSE, jbig2dec |-> "absent"]
NoInput == [op |-> "", pdf_bytes |-> NoPdf, pil_img_list |-> <<>>, optional_text |-> FALSE]

\* the variables of the facade, of the allocator, of a write / read session
facadeVars == <<data, last, songti, has_read>>
allocVars == <<id_obj, n_calls, ret, built>>
toolVars == <<pack, call, gui, font_tool>>
sessionVars == <<pc, inp, pkg, ofdb64, path_map, disk, out, toolVars>>

InitFacade ==
    /\ data = [none |-> TRUE, doc_list |-> <<>>]
    /\ last = [op |-> "init", result |-> "ok"]
    /\ songti = TRUE
    /\ has_read = FALSE
InitAlloc ==
    /\ id_obj = CurId_init
    /\ n_calls = 0
    /\ ret = 0
    /\ built = <<>>
InitIO ==
    /\ pc = "idle"
    /\ inp = NoInput
    /\ pkg = NoPackage
    /\ ofdb64 = NoPackage
    /\ path_map = <<>>
    /\ disk = NoFiles
    /\ out = NoOut
NoCall == [args |-> <<>>, done |-> FALSE, result |-> <<>>]
\* no engine yet: conv counts the engines made, FONTS is FontTool.FONTS of
\* the engine of the conversion under way, registered the names in the
\* font registry of the process, at[f] the conversion in which register_font
\* appended f (0: none), run the last text run drawn: [name, font, exc]
EmbeddedFonts == {"F1", "F2"}
NoRun == [name |-> "", font |-> "", exc |-> "", since |-> 0]
NoFontTool ==
    [conv |-> 0, installed |-> <<>>, FONTS |-> <<>>, registered |-> {},
     at |-> [f \in EmbeddedFonts |-> 0], run |-> NoRun]

\* the window of main5.py and the files it sees.  A file name is what
\* os.path.splitext splits it into; a directory entry is absent, a
\* directory or a file of some bytes: nothing, a PDF, an OFD container or
\* what the engine drew
FileName(base, ext) == [base |-> base, ext |-> ext]
NoName == FileName("", "")
Exts == {".pdf", ".ofd", ".PDF", ".txt"}
FileNames == {FileName("a", e) : e \in Exts}
EmptyBytes == [form |-> "empty", pdf |-> NoPdf, ofd |-> NoPackage, drawn |-> <<>>]
PdfBytes(p) == [form |-> "pdf", pdf |-> p, ofd |-> NoPackage, drawn |-> <<>>]
OfdBytes(f) == [form |-> "ofd", pdf |-> NoPdf, ofd |-> f, drawn |-> <<>>]
DrawnBytes(v) == [form |-> "drawn", pdf |-> NoPdf, ofd |-> NoPackage, drawn |-> v]
Absent == [kind |-> "absent", bytes |-> EmptyBytes]
Dir == [kind |-> "dir", bytes |-> EmptyBytes]
FileOf(b) == [kind |-> "file", bytes |-> b]
NoBox == [icon |-> "", text |-> ""]
NoConv == [output |-> NoName, exc |-> "", bytes |-> EmptyBytes]
NoGui == [file_path |-> NoName, files |-> [n \in FileNames |-> Absent],
          box |-> NoBox, conv |-> NoConv]

InitTools == pack = NoPack /\ call = NoCall /\ gui = NoGui /\ font_tool = NoFontTool
InitSession ==
    /\ InitIO
    /\ InitTools

InitCurId == InitFacade /\ InitAlloc /\ InitSession

CallGetId ==
    /\ n_calls < MaxCalls
    /\ ret' = get_id(id_obj).ret
    /\ id_obj' = get_id(id_obj).id_obj
    /\ n_calls' = n_calls + 1
    /\ UNCHANGED <<facadeVars, sessionVars, built>>

CallAddUuidMap ==
    /\ \E u \in UUIDs, v \in MapIds :
          id_obj' = add_uuid_map(id_obj, Dec(u), Dec(v))
    /\ UNCHANGED <<facadeVars, sessionVars, n_calls, ret, built>>

NextCurId == CallGetId \/ CallAddUuidMap

SpecCurId == InitCurId /\ [][NextCurId]_vars

\* C5: on a fresh allocator the k-th get_id call returns k, and after k >= 1
\* calls get_max_id returns k + 1.
C5_IdSequence ==
    n_calls >= 1 => /\ ret = n_calls
                    /\ get_max_id(id_obj) = n_calls + 1

\* four calls were made: they returned 1,2,3,4 (by C5_IdSequence at each
\* step) and the hint is 5
C5_Witness == n_calls = 4 /\ ret = 4 /\ get_max_id(id_obj) = 5

-----------------------------------------------------------------------------
(* DrawPDF.cmp_offset (draw/draw_pdf.py): the coordinate of every character *)
(* of a text run along one axis.  A Delta rule is the str of its tokens     *)
(* (split(" ")): "g", the text of a number, or an empty token between two   *)
(* spaces.  CTM_info is [given, resizeX, resizeY, moveX, moveY].            *)

\* does float(tok) succeed, and float(tok)
IsFloatText(tok) == tok.w = "" /\ tok.i # <<>> /\ tok.e = ""
FloatOf(tok) == IF tok.f = <<>> THEN Flt(DigitsToInt(tok.i), 1) ELSE ParseFloat(tok)
\* does int(tok) succeed, and int(tok)
IsIntText(tok) == IsFloatText(tok) /\ tok.f = <<>>
IntOf(tok) == DigitsToInt(tok.i)
\* float(v or 0) for a raw attribute v: [exc, val]
FloatOr0(v) ==
    IF ~Truthy(v) THEN [exc |-> "", val |-> Flt(0, 1)]
    ELSE IF v.t = "float" THEN [exc |-> "", val |-> v]
    ELSE IF v.t = "dec" THEN [exc |-> "", val |-> Flt(v.n, 1)]
    ELSE IF v.t = "chars" /\ Len(v.x) = 1 /\ IsFloatText(v.x[1])
    THEN [exc |-> "", val |-> FloatOf(v.x[1])]
    ELSE [exc |-> "ValueError", val |-> Flt(0, 1)]

NoCTM == [given |-> FALSE, resizeX |-> Flt(1, 1), resizeY |-> Flt(1, 1),
          moveX |-> Flt(0, 1), moveY |-> Flt(0, 1)]

\* the coordinates appended by one step less than the repeat count
repeat_steps_short(char_pos, repeat, step) ==
    [k \in 1..(repeat - 1) |-> FloatAdd(char_pos, FloatMul(Flt(k, 1), step))]

\* for _ in range(repeat): char_pos += step; pos_list.append(char_pos)
repeat_steps(char_pos, repeat, step) ==
    [k \in 1..repeat |-> FloatAdd(char_pos, FloatMul(Flt(k, 1), step))]

\* the loop with the first "g" alone taken as the head of a repeat group:
\* a later "g" is read as a plain advance
RECURSIVE g_rule_first_only(_, _, _, _, _, _)
g_rule_first_only(offsets, idx, g_no, char_pos, pos_list, resize) ==
    IF idx >= Len(offsets) THEN [exc |-> "", val |-> pos_list]
    ELSE LET value == offsets[idx + 1]
             plain == FloatAdd(char_pos, FloatMul(FloatOf(value), resize))
         IN  IF value = Word("g") /\ g_no = -1
             THEN IF idx + 3 > Len(offsets) THEN [exc |-> "IndexError", val |-> pos_list]
                  ELSE IF ~IsIntText(offsets[idx + 2]) \/ ~IsFloatText(offsets[idx + 3])
                  THEN [exc |-> "ValueError", val |-> pos_list]
                  ELSE With(repeat_steps(char_pos, IntOf(offsets[idx + 2]),
                                         FloatOf(offsets[idx + 3])), LAMBDA more :
                       g_rule_first_only(offsets, idx + 1, idx,
                              IF more = <<>> THEN char_pos ELSE more[Len(more)],
                              pos_list \o more, resize))
             ELSE IF g_no = -1 \/ idx > g_no + 2
             THEN IF ~IsFloatText(value) THEN [exc |-> "ValueError", val |-> pos_list]
                  ELSE g_rule_first_only(offsets, idx + 1, g_no, plain,
                                         Append(pos_list, plain), resize)
             ELSE g_rule_first_only(offsets, idx + 1, g_no, char_pos, pos_list, resize)

\* the loop over the tokens of a rule that holds a "g": idx counts from 0,
\* g_no is -1 for None
RECURSIVE g_rule(_, _, _, _, _, _)
g_rule(offsets, idx, g_no, char_pos, pos_list, resize) ==
    IF idx >= Len(offsets) THEN [exc |-> "", val |-> pos_list]
    ELSE LET value == offsets[idx + 1]
             plain == FloatAdd(char_pos, FloatMul(FloatOf(value), resize))
         IN  IF value = Word("g")
             THEN IF idx + 2 > Len(offsets) THEN [exc |-> "IndexError", val |-> pos_list]
                  ELSE IF ~IsIntText(offsets[idx + 2])
                  THEN [exc |-> "ValueError", val |-> pos_list]
                  ELSE IF idx + 3 > Len(offsets) THEN [exc |-> "IndexError", val |-> pos_list]
                  ELSE IF ~IsFloatText(offsets[idx + 3])
                  THEN [exc |-> "ValueError", val |-> pos_list]
                  ELSE With(repeat_steps(char_pos, IntOf(offsets[idx + 2]),
                                         FloatOf(offsets[idx + 3])), LAMBDA more :
                       g_rule(offsets, idx + 1, idx,
                              IF more = <<>> THEN char_pos ELSE more[Len(more)],
                              pos_list \o more, resize))
             ELSE IF g_no = -1 \/ idx > g_no + 2
             THEN IF ~IsFloatText(value) THEN [exc |-> "ValueError", val |-> pos_list]
                  ELSE g_rule(offsets, idx + 1, g_no, plain, Append(pos_list, plain), resize)
             ELSE g_rule(offsets, idx + 1, g_no, char_pos, pos_list, resize)

\* the loop over the tokens of a rule without "g": float(value or 0)
RECURSIVE plain_rule(_, _, _, _, _)
plain_rule(offsets, idx, char_pos, pos_list, resize) ==
    IF idx >= Len(offsets) THEN [exc |-> "", val |-> pos_list]
    ELSE LET value == offsets[idx + 1]
             step == IF value = Word("") THEN Flt(0, 1) ELSE FloatOf(value)
             next == FloatAdd(char_pos, FloatMul(step, resize))
         IN  IF value # Word("") /\ ~IsFloatText(value)
             THEN [exc |-> "ValueError", val |-> pos_list]
             ELSE plain_rule(offsets, idx + 1, next, Append(pos_list, next), resize)

\* cmp_offset: [exc, val], val the list of coordinates
cmp_offset(pos, offset, DeltaRule, text, CTM_info, dire) ==
    LET resize == IF ~CTM_info.given THEN Flt(1, 1)
                  ELSE IF dire = "X" THEN CTM_info.resizeX
                  ELSE IF dire = "Y" THEN CTM_info.resizeY ELSE Flt(1, 1)
        move == IF ~CTM_info.given THEN Flt(0, 1)
                ELSE IF dire = "X" THEN CTM_info.moveX
                ELSE IF dire = "Y" THEN CTM_info.moveY ELSE Flt(0, 1)
        offsets == IF Truthy(DeltaRule) THEN DeltaRule.x ELSE <<>>
    IN  With(FloatOr0(pos), LAMBDA p :
        With(FloatOr0(offset), LAMBDA o :
        IF p.exc # "" THEN [exc |-> p.exc, val |-> <<>>]
        ELSE IF o.exc # "" THEN [exc |-> o.exc, val |-> <<>>]
        ELSE With(FloatAdd(p.val, FloatMul(FloatAdd(o.val, move), resize)), LAMBDA char_pos :
             IF \E i \in 1..Len(offsets) : offsets[i] = Word("g")
             THEN g_rule(offsets, 0, -1, char_pos, <<char_pos>>, resize)
             ELSE IF offsets = <<>>
             THEN [exc |-> "", val |-> [i \in 1..Len(text.x) |-> char_pos]]
             ELSE plain_rule(offsets, 0, char_pos, <<char_pos>>, resize))))

-----------------------------------------------------------------------------
(* DrawPDF: the PDF rendering engine (draw/draw_pdf.py).  The engine's data *)
(* is [none, doc_list]: none stands for None, doc_list for the list of      *)
(* document models.  pdf_io is the sequence of the documents saved into the *)
(* buffer, each [pages, fallback]; getvalue() of an empty buffer is <<>>.   *)
(* The rendering pass draw_pdf is called by __call__ but is not in the      *)
(* source tree: it is modelled from its contract, by its two outcomes.      *)

NoEngine == [data |-> <<>>, pdf_uuid_name |-> NoneV, pdf_io |-> <<>>, init_font |-> ""]

\* DrawPDF.__init__: [exc, self]
DrawPDF_init(engine_data) ==
    IF engine_data.none \/ engine_data.doc_list = <<>>
    THEN [exc |-> "AssertionError", self |-> NoEngine]
    ELSE IF "pdf_name" \notin DOMAIN engine_data.doc_list[1]
    THEN [exc |-> "KeyError", self |-> NoEngine]
    ELSE [exc |-> "",
          self |-> [data |-> engine_data.doc_list,
                    pdf_uuid_name |-> engine_data.doc_list[1].pdf_name,
                    pdf_io |-> <<>>,
                    init_font |-> "SongTi"]]

\* gen_empty_pdf: setFont(self.init_font, 20) raises for a font name that is
\* not registered; registered says whether the init font is
gen_empty_pdf(self, registered) ==
    IF ~registered THEN [exc |-> "KeyError", self |-> self]
    ELSE [exc |-> "",
          self |-> [self EXCEPT !.pdf_io = Append(self.pdf_io,
                                                  [pages |-> 1, fallback |-> TRUE])]]

\* the outcomes of the rendering pass: every page drawn and the canvas saved,
\* or an exception at some stage before the canvas is saved
DrawOutcomes == {"drawn", "raises"}
draw_pdf(self, outcome) ==
    IF outcome = "drawn"
    THEN [exc |-> "",
          self |-> [self EXCEPT !.pdf_io =
                       Append(self.pdf_io, [pages |-> Len(self.data[1].page_info),
                                            fallback |-> FALSE])]]
    ELSE [exc |-> "Exception", self |-> self]

\* DrawPDF.__call__: [exc, val]
DrawPDF_call(self, outcome, registered) ==
    With(draw_pdf(self, outcome), LAMBDA drawn :
    IF drawn.exc = "" THEN [exc |-> "", val |-> drawn.self.pdf_io]
    ELSE With(gen_empty_pdf(self, registered), LAMBDA empty :
         IF empty.exc # "" THEN [exc |-> empty.exc, val |-> <<>>]
         ELSE [exc |-> "", val |-> empty.self.pdf_io]))

\* DrawPDF(data)(): [exc, val]
DrawPDF_run(engine_data, outcome, registered) ==
    With(DrawPDF_init(engine_data), LAMBDA made :
    IF made.exc # "" THEN [exc |-> made.exc, val |-> <<>>]
    ELSE DrawPDF_call(made.self, outcome, registered))

-----------------------------------------------------------------------------
(* OFD: the facade (ofd.py).  What is handed to read is [form, content]:    *)
(* form is "path" (the name of a file), "b64" (a base64 text), "binary"     *)
(* (bytes) or "io" (a BytesIO), content the container that the file, text,  *)
(* bytes or buffer holds.                                                    *)

Formats == {"path", "b64", "binary", "io"}
NoData == [none |-> TRUE, doc_list |-> <<>>]

\* OFDParser.img2data: the document model of a list of images
img2data(imglist) ==
    LET OP_ == Flt(1000, 127)       \* OP = 200 / 25.4
        pos(img) == <<PyInt(0), PyInt(0), FloatDiv(IntToFloat(img[1]), OP_),
                      FloatDiv(IntToFloat(img[2]), OP_)>>
    IN  <<[pdf_name |-> Str("demo.pdf"),
           doc_no |-> Str("0"),
           images |-> [idx \in 1..Len(imglist) |->
                         [k |-> Dec(idx - 1),
                          v |-> [format |-> "jpg", wrap_pos |-> "", type |-> "IMG",
                                 suffix |-> "jpg",
                                 fileName |-> Chars(<<File("", idx - 1, ".jpg")>>),
                                 imgb64 |-> b64encode(pil_2_bytes(imglist[idx]))]]],
           page_size |-> IF imglist = <<>> THEN <<>> ELSE pos(imglist[Len(imglist)]),
           fonts |-> <<>>,
           page_info |-> [idx \in 1..Len(imglist) |->
                            [k |-> idx - 1,
                             v |-> [text_list |-> <<>>,
                                    img_list |-> <<[CTM |-> Str(""), ID |-> Dec(idx - 1),
                                                    ResourceID |-> Dec(idx - 1),
                                                    pos |-> pos(imglist[idx])]>>]]]]>>

\* base64.b64decode(ofdb64) in FileRead.__init__: the container that a
\* base64 text holds; what is not a base64 text decodes to no archive
b64decode(text) == IF text.form = "b64" THEN text.content ELSE NoPackage

\* read with every format left to the parser
read_convert_lenient(ofd_f, fmt) ==
    [exc |-> "", val |-> [form |-> "b64", content |-> ofd_f.content]]

\* the if / elif chain of read: [exc, val], val the base64 text for the parser
read_convert(ofd_f, fmt) ==
    CASE fmt = "path" ->
           IF ofd_f.form = "path"
           THEN [exc |-> "", val |-> [form |-> "b64", content |-> ofd_f.content]]
           ELSE [exc |-> "OSError", val |-> ofd_f]
      [] fmt = "b64" -> [exc |-> "", val |-> ofd_f]
      [] fmt = "binary" ->
           IF ofd_f.form = "binary"
           THEN [exc |-> "", val |-> [form |-> "b64", content |-> ofd_f.content]]
           ELSE [exc |-> "TypeError", val |-> ofd_f]
      [] fmt = "io" ->
           IF ofd_f.form = "io"
           THEN [exc |-> "", val |-> [form |-> "b64", content |-> ofd_f.content]]
           ELSE [exc |-> "AttributeError", val |-> ofd_f]
      [] OTHER -> [exc |-> "TypeError", val |-> ofd_f]   \* raise "fomat Error: ..."

\* OFD.read: [exc, data], data the stored model after the call
read(self_data, ofd_f, fmt) ==
    With(read_convert(ofd_f, fmt), LAMBDA converted :
    IF converted.exc # "" THEN [exc |-> converted.exc, data |-> self_data]
    ELSE With(OFDParser_call(b64decode(converted.val)), LAMBDA parsed :
         IF parsed.exc # "" THEN [exc |-> parsed.exc, data |-> self_data]
         ELSE [exc |-> "", data |-> [none |-> FALSE, doc_list |-> parsed.doc_list]]))

\* assert self.data
assert_data(self_data) == ~self_data.none /\ self_data.doc_list # <<>>

\* OFD.to_pdf: [exc, val]
to_pdf(self_data, outcome, registered) ==
    IF ~assert_data(self_data) THEN [exc |-> "AssertionError", val |-> <<>>]
    ELSE DrawPDF_run(self_data, outcome, registered)

\* OFD.pdf2img: fitz opens the bytes and every page of the document gives
\* one image; empty bytes are no document
pdf2img(pdfbytes) ==
    IF pdfbytes = <<>> THEN [exc |-> "FileDataError", val |-> <<>>]
    ELSE [exc |-> "", val |-> [i \in 1..pdfbytes[1].pages |-> i]]

\* OFD.to_jpg: [exc, val, pdf]
to_jpg(self_data, outcome, registered) ==
    IF ~assert_data(self_data)
    THEN [exc |-> "AssertionError", val |-> <<>>, pdf |-> <<>>]
    ELSE With(to_pdf(self_data, outcome, registered), LAMBDA pdfbytes :
         IF pdfbytes.exc # "" THEN [exc |-> pdfbytes.exc, val |-> <<>>, pdf |-> <<>>]
         ELSE With(pdf2img(pdfbytes.val), LAMBDA image_list :
              [exc |-> image_list.exc, val |-> image_list.val, pdf |-> pdfbytes.val]))

\* the model left stored when del_data does nothing
keep_data(self_data) == self_data

\* OFD.del_data: self.data = None
del_data(self_data) == NoData

\* OFD.disposal: self.__del__(), whose del self unbinds a local name
disposal(self_data) == self_data

\* OFD.jpg2pfd: [exc, val]
jpg2pfd(imglist, outcome, registered) ==
    DrawPDF_run([none |-> FALSE, doc_list |-> img2data(imglist)], outcome, registered)

-----------------------------------------------------------------------------
(* The facade in use: one OFD object, and the engine called on its own.     *)
(* last is the last call and what it gave; has_read says that a read has    *)
(* completed since construction or since the last del_data; songti says     *)
(* that the engine's init font is registered on this machine.               *)

\* the members of a container without the one at position i (all, for 0)
Without(members, i) ==
    [j \in 1..(Len(members) - (IF i = 0 THEN 0 ELSE 1)) |->
        IF i = 0 \/ j < i THEN members[j] ELSE members[j + 1]]

\* the containers handed to read: the packages that jpg2ofd writes, one of
\* them without its OFD.xml, and bytes that are no archive
Packages == {OFDWrite_call(NoPdf, imglist, FALSE, FALSE).ofd_byte :
                imglist \in ImageLists \ {<<>>}}
Rootless == {[zip |-> TRUE, members |-> Without(f.members, 1)] : f \in Packages}
Containers == Packages \cup {NoPackage}
                \cup {CHOOSE f \in Rootless : TRUE}
OfdInputs == [form : Formats, content : Containers]

\* the models handed to the engine directly: an empty list, a document
\* without pdf_name
EngineModels ==
    {[none |-> FALSE, doc_list |-> <<>>],
     [none |-> FALSE, doc_list |-> <<[page_info |-> <<>>]>>]}

Call(op, fmt, exc, pdf, images) ==
    [op |-> op, fmt |-> fmt, result |-> IF exc = "" THEN "ok" ELSE exc,
     pdf |-> pdf, images |-> images]

Init ==
    /\ data = NoData
    /\ last = Call("init", "", "", <<>>, <<>>)
    /\ songti \in BOOLEAN
    /\ has_read = FALSE
    /\ InitAlloc
    /\ InitSession

\* ofd.read(ofd_f, fmt): what is handed over has the form that fmt names,
\* unless fmt is not one of the four formats
Read ==
    \E fmt \in Formats \cup {"xml"}, ofd_f \in OfdInputs :
        /\ fmt \in Formats => ofd_f.form = fmt
        /\ \E r \in {read(data, ofd_f, fmt)} :
             /\ data' = r.data
             /\ last' = Call("read", fmt, r.exc, <<>>, <<>>)
             /\ has_read' = (has_read \/ r.exc = "")
        /\ UNCHANGED <<songti, allocVars, sessionVars>>

\* ofd.to_pdf()
ToPdf ==
    /\ \E outcome \in DrawOutcomes :
         \E r \in {to_pdf(data, outcome, songti)} :
             last' = Call("to_pdf", "", r.exc, r.val, <<>>)
    /\ UNCHANGED <<data, songti, has_read, allocVars, sessionVars>>

\* ofd.to_jpg()
ToJpg ==
    /\ \E outcome \in DrawOutcomes :
         \E r \in {to_jpg(data, outcome, songti)} :
             last' = Call("to_jpg", "", r.exc, r.pdf, r.val)
    /\ UNCHANGED <<data, songti, has_read, allocVars, sessionVars>>

\* ofd.del_data()
DelData ==
    /\ data' = del_data(data)
    /\ last' = Call("del_data", "", "", <<>>, <<>>)
    /\ has_read' = FALSE
    /\ UNCHANGED <<songti, allocVars, sessionVars>>

\* ofd.disposal()
Disposal ==
    /\ data' = disposal(data)
    /\ last' = Call("disposal", "", "", <<>>, <<>>)
    /\ UNCHANGED <<songti, has_read, allocVars, sessionVars>>

\* ofd.jpg2pfd(imglist)
Jpg2Pfd ==
    /\ \E imglist \in ImageLists, outcome \in DrawOutcomes :
         \E r \in {jpg2pfd(imglist, outcome, songti)} :
             last' = Call("jpg2pfd", "", r.exc, r.val, <<>>)
    /\ UNCHANGED <<data, songti, has_read, allocVars, sessionVars>>

\* DrawPDF(model)() on a model that no parser made
Render ==
    /\ \E model \in EngineModels, outcome \in DrawOutcomes :
         \E r \in {DrawPDF_run(model, outcome, songti)} :
             last' = Call("DrawPDF", "", r.exc, r.val, <<>>)
    /\ UNCHANGED <<data, songti, has_read, allocVars, sessionVars>>

Next == Read \/ ToPdf \/ ToJpg \/ DelData \/ Disposal \/ Jpg2Pfd \/ Render

Spec == Init /\ [][Next]_vars

\* the calls that run the engine
EngineCalls == {"to_pdf", "to_jpg", "jpg2pfd", "DrawPDF"}

\* C1: whatever model the engine is constructed and called with, the call
\* does not raise and returns a non-empty PDF byte sequence (to_pdf and
\* to_jpg hand the engine the stored model once their precondition holds).
C1_NeverRaises ==
    (last.op \in EngineCalls /\ (last.op \in {"to_pdf", "to_jpg"} => assert_data(data))) =>
        (last.result = "ok" /\ last.pdf # <<>>)

\* C2: to_pdf and to_jpg raise the precondition error and render nothing
\* when no read has completed since construction or since the last
\* del_data; they succeed only when a read model is stored.
C2_Precondition ==
    last.op \in {"to_pdf", "to_jpg"} =>
        /\ ~has_read => (last.result = "AssertionError" /\ last.pdf = <<>>
                         /\ last.images = <<>>)
        /\ last.result = "ok" => (has_read /\ assert_data(data))

\* to_jpg was refused while no model was stored
C2_Witness ==
    /\ last.op = "to_jpg"
    /\ last.result = "AssertionError"
    /\ ~has_read
    /\ data = NoData

\* a model was read and to_pdf gave a document
C2_WitnessOk ==
    /\ last.op = "to_pdf"
    /\ last.result = "ok"
    /\ has_read
    /\ last.pdf # <<>>

\* C3: a read with a format outside the accepted set reports an error and
\* leaves the stored model as it was.
C3_BadFormat ==
    [][(last'.op = "read" /\ last'.fmt \notin Formats) =>
          (data' = data /\ last'.result # "ok")]_vars

\* a read with format "xml" was refused while a read model was stored
C3_Witness ==
    /\ last.op = "read"
    /\ last.fmt = "xml"
    /\ last.result = "TypeError"
    /\ ~data.none
    /\ Len(data.doc_list[1].page_info) = 2

\* C4: after del_data and after disposal the stored model is cleared, and
\* a second call in a row leaves the same state as the first.
C4_Cleared ==
    last.op \in {"del_data", "disposal"} => data = NoData

-----------------------------------------------------------------------------
(* Templates built one after the other with one shared allocator, as a      *)
(* write session builds them (DocumentResTemplate, PublicResTemplate and    *)
(* ContentTemplate of ofdtemplate.py, called with id_obj = the allocator).  *)
(* built lists what was built: the kind, the res_uuid given to the entries  *)
(* of each list, the template and the exception that ended construction.    *)

\* the res_uuid of the entries of one list: no entry, or one
EntryUuids == {<<>>} \cup {<<u>> : u \in UUIDs}

MultiMediaEntry(u) ==
    Dict(<<KV("@ID", PyInt(0)), KV("@Type", Str("Image")),
           KV("ofd:MediaFile", ImageName(Dec(u))), KV("res_uuid", Dec(u))>>)
FontEntry(u) ==
    Dict(<<KV("@ID", PyInt(0)), KV("@FontName", Str("SimSun")),
           KV("@FamilyName", Str("SimSun")), KV("res_uuid", Dec(u))>>)
ImageObjectEntry(u) ==
    Dict(<<KV("@ID", PyInt(0)), KV("res_uuid", Dec(u)),
           KV("@Boundary", Nums(<<0, 0, 25, 12>>)), KV("@ResourceID", Str(""))>>)
TextObjectEntry(u) ==
    Dict(<<KV("@ID", PyInt(0)), KV("res_uuid", Dec(u)), KV("@Font", Str("")),
           KV("@Boundary", Nums(<<12, 6, 25, 6>>))>>)

InitTemplates == InitFacade /\ InitAlloc /\ InitSession

\* what a construction leaves: the allocator, and one more entry of built
Record(kind, res, img, text, r) ==
    /\ id_obj' = r.id_obj
    /\ built' = Append(built, [kind |-> kind, res |-> res, img |-> img, text |-> text,
                               final_json |-> r.final_json, exc |-> r.exc])
    /\ UNCHANGED <<facadeVars, sessionVars, n_calls, ret>>

\* DocumentResTemplate(MultiMedia=[...], id_obj=id_obj)
BuildDocumentRes ==
    /\ Len(built) < MaxBuilt
    /\ \E us \in EntryUuids :
         Record("DocumentRes", us, <<>>, <<>>,
                DocumentResTemplate_init(
                    <<KV("MultiMedia", List([i \in 1..Len(us) |-> MultiMediaEntry(us[i])])),
                      KV("id_obj", NoneV)>>, id_obj))

\* PublicResTemplate(Font=[...], id_obj=id_obj)
BuildPublicRes ==
    /\ Len(built) < MaxBuilt
    /\ \E us \in EntryUuids :
         Record("PublicRes", us, <<>>, <<>>,
                PublicResTemplate_init(
                    <<KV("Font", List([i \in 1..Len(us) |-> FontEntry(us[i])])),
                      KV("id_obj", NoneV)>>, id_obj))

\* ContentTemplate(ImageObject=[...], TextObject=[...], id_obj=id_obj)
BuildContent ==
    /\ Len(built) < MaxBuilt
    /\ \E img \in EntryUuids, text \in EntryUuids :
         Record("Content", <<>>, img, text,
                ContentTemplate_init(
                    <<KV("ImageObject", List([i \in 1..Len(img) |-> ImageObjectEntry(img[i])])),
                      KV("TextObject", List([i \in 1..Len(text) |-> TextObjectEntry(text[i])])),
                      KV("id_obj", NoneV)>>, id_obj))

NextTemplates == BuildDocumentRes \/ BuildPublicRes \/ BuildContent

SpecTemplates == InitTemplates /\ [][NextTemplates]_vars

\* the entries found under key in a template
Entries(final_json, key) == recursion_ext(final_json, <<>>, key)

\* the entries of template i under res_key that carry res_uuid u got id N, and
\* in a Content template j built later the list entries under key that were
\* given u have their target attribute equal to N and no carrier
Correlated(i, j, res_key, given, key, targe_key) ==
    \A e \in 1..Len(Entries(built[i].final_json, res_key)) :
        LET entry == Entries(built[i].final_json, res_key)[e]
        IN  \A k \in 1..Len(given) :
                given[k] = Get(entry, "res_uuid").n =>
                    LET node == Entries(built[j].final_json, key)[k]
                    IN  /\ Get(node, targe_key) = Get(entry, "@ID")
                        /\ ~HasKey(node, "res_uuid")

\* no template of the kind of template i, built before template j, other
\* than i, has an entry carrying a res_uuid that an entry of i carries
SoleCarrier(i, j) ==
    \A h \in 1..(j - 1) :
        (h # i /\ built[h].kind = built[i].kind) =>
            \A a \in 1..Len(built[h].res), b \in 1..Len(built[i].res) :
                built[h].res[a] # built[i].res[b]

\* C8: for a DocumentRes (PublicRes) template whose entry carrying res_uuid u
\* got id N (u carried by no other DocumentRes (PublicRes) entry), every
\* Content template constructed afterwards with the same allocator has
\* @ResourceID (@Font) = N in each ImageObject (TextObject) list entry that
\* carried u, and the carrier is gone.
C8_CorrelatedIds ==
    \A i, j \in 1..Len(built) :
        (i < j /\ built[j].kind = "Content" /\ built[j].exc = "" /\ SoleCarrier(i, j)) =>
            /\ built[i].kind = "DocumentRes" =>
                  Correlated(i, j, "ofd:MultiMedia", built[j].img,
                             "ofd:ImageObject", "@ResourceID")
            /\ built[i].kind = "PublicRes" =>
                  Correlated(i, j, "ofd:Font", built[j].text, "ofd:TextObject", "@Font")

-----------------------------------------------------------------------------
(* A write session and the reading of its package: the facade's jpg2ofd and *)
(* pdf2ofd (ofd.py) call OFDWrite; the reader (OFDParser.__call__) unzips a  *)
(* container with FileRead and then runs parser.  The container read is the *)
(* package written, or that package with one member missing.                *)

InitWrite == InitFacade /\ InitAlloc /\ InitSession

\* OFD.jpg2ofd(imglist)
Jpg2Ofd ==
    /\ pc = "idle"
    /\ \E imglist \in ImageLists, lenient \in BOOLEAN :
         \E r \in {OFDWrite_call(NoPdf, imglist, FALSE, lenient)} :
             /\ inp' = [op |-> "jpg2ofd", pdf_bytes |-> NoPdf, pil_img_list |-> imglist,
                        optional_text |-> FALSE]
             /\ pkg' = r.ofd_byte
             /\ out' = [exc |-> r.exc, doc_list |-> <<>>]
             /\ pc' = IF r.exc = "" THEN "written" ELSE "raised"
    /\ UNCHANGED <<facadeVars, allocVars, ofdb64, path_map, disk, toolVars>>

\* OFD.pdf2ofd(pdfbyte, optional_text)
Pdf2Ofd ==
    /\ pc = "idle"
    /\ \E pdfbyte \in Pdfs, optional_text \in BOOLEAN :
         \E r \in {OFDWrite_call(pdfbyte, <<>>, optional_text, FALSE)} :
             /\ inp' = [op |-> "pdf2ofd", pdf_bytes |-> pdfbyte, pil_img_list |-> <<>>,
                        optional_text |-> optional_text]
             /\ pkg' = r.ofd_byte
             /\ out' = [exc |-> r.exc, doc_list |-> <<>>]
             /\ pc' = IF r.exc = "" THEN "written" ELSE "raised"
    /\ UNCHANGED <<facadeVars, allocVars, ofdb64, path_map, disk, toolVars>>

\* the members of a container with the xml member at position i cut short,
\* so that it is no well-formed document (all as they are, for a member
\* that is no xml)
Damaged(members, i) ==
    [j \in 1..Len(members) |->
        IF j = i /\ IsXmlName(members[j].path[Len(members[j].path)])
        THEN [members[j] EXCEPT !.wf = FALSE] ELSE members[j]]

\* what is handed to the reader for a package p: p itself, p without one of
\* its members, p with one xml member cut short, bytes that are no archive
Handed(p) ==
    {[zip |-> TRUE, members |-> Without(p.members, i)] : i \in 0..Len(p.members)}
      \cup {[zip |-> TRUE, members |-> Damaged(p.members, i)] : i \in 1..Len(p.members)}
      \cup {NoPackage}

\* OFDParser.__call__, first half: FileRead(self.ofdb64)()
Unzip ==
    /\ pc = "written"
    /\ \E f \in Handed(pkg) :
         \E r \in {FileRead_call(f)} :
             /\ ofdb64' = f
             /\ path_map' = IF r.exc = "" THEN r.file_tree ELSE <<>>
             /\ disk' = [disk EXCEPT !.zip_file = r.zip_file, !.unzip_dir = r.unzip_dir]
             /\ out' = [exc |-> r.exc, doc_list |-> <<>>]
             /\ pc' = IF r.exc = "" THEN "unzipped" ELSE "raised"
    /\ UNCHANGED <<facadeVars, allocVars, inp, pkg, toolVars>>

\* OFDParser.__call__, second half: return self.parser()
Parse ==
    /\ pc = "unzipped"
    /\ \E r \in {parser(path_map)} :
         /\ out' = r
         /\ pc' = IF r.exc = "" THEN "parsed" ELSE "raised"
    /\ UNCHANGED <<facadeVars, allocVars, inp, pkg, ofdb64, path_map, disk, toolVars>>

NextWrite == Jpg2Ofd \/ Pdf2Ofd \/ Unzip \/ Parse

SpecWrite == InitWrite /\ [][NextWrite]_vars

\* the @ID attributes of an element and of the elements below it, in
\* document order
RECURSIVE ElemIds(_)
RECURSIVE KidsIds(_, _)
ElemIds(e) ==
    LET own == SelectSeq(e.attrs, LAMBDA a : a.k = "@ID")
    IN  [i \in 1..Len(own) |-> own[i].v] \o KidsIds(e.kids, 1)
KidsIds(kids, i) ==
    IF i > Len(kids) THEN <<>> ELSE ElemIds(kids[i]) \o KidsIds(kids, i + 1)

\* the texts of the elements named tag in and below an element
RECURSIVE ElemTexts(_, _)
RECURSIVE KidsTexts(_, _, _)
ElemTexts(e, tag) ==
    (IF e.tag = tag THEN <<e.text>> ELSE <<>>) \o KidsTexts(e.kids, 1, tag)
KidsTexts(kids, i, tag) ==
    IF i > Len(kids) THEN <<>>
    ELSE ElemTexts(kids[i], tag) \o KidsTexts(kids, i + 1, tag)

IdMembers == {XmlFile("Document"), XmlFile("PublicRes"), XmlFile("DocumentRes"),
              XmlFile("Content")}

\* the @ID of all id-bearing nodes of a package
RECURSIVE PackageIds(_, _)
PackageIds(members, i) ==
    IF i > Len(members) THEN <<>>
    ELSE (IF members[i].path[Len(members[i].path)] \in IdMembers
          THEN ElemIds(members[i].doc) ELSE <<>>) \o PackageIds(members, i + 1)

\* the MaxUnitID values written in the Document.xml of a package
MaxUnitIDs(members) ==
    LET m == CHOOSE j \in 1..Len(members) :
                 members[j].path = <<Name("Doc_", 0), XmlFile("Document")>>
    IN  ElemTexts(members[m].doc, "ofd:MaxUnitID")

\* C6: in every package that a run of OFDWrite produced, no two id-bearing
\* nodes of Document.xml, PublicRes.xml, DocumentRes.xml and the Content.xml
\* members carry the same @ID.
C6_UniqueIds ==
    pkg.zip =>
        LET ids == PackageIds(pkg.members, 1)
        IN  \A i, j \in 1..Len(ids) : i # j => ids[i] # ids[j]

\* C7: in every package that a run of OFDWrite produced, the MaxUnitID of
\* Document.xml is strictly greater than every @ID of every member.
C7_MaxUnitIdAboveAll ==
    pkg.zip =>
        LET ids == PackageIds(pkg.members, 1)
            maxs == MaxUnitIDs(pkg.members)
        IN  /\ Len(maxs) = 1
            /\ \A i \in 1..Len(ids) : maxs[1].n > ids[i].n

\* the boundary [0, 0, width / OP, height / OP] of an image, OP = 96 / 25.4
FullPage(img) ==
    <<Flt(0, 1), Flt(0, 1), Frac(254 * img[1], 960), Frac(254 * img[2], 960)>>

\* C9: a non-empty image list written by jpg2ofd, unpacked and parsed,
\* gives for each image, in page order, a page with exactly one ImageObject,
\* whose boundary is [0, 0, width / OP, height / OP]; neither the writing nor
\* the reading of the untouched package raises.
C9_RoundTrip ==
    (inp.op = "jpg2ofd" /\ inp.pil_img_list # <<>>) =>
        /\ pc = "raised" => ofdb64 # pkg
        /\ (pc = "parsed" /\ ofdb64 = pkg) =>
             LET page_info == out.doc_list[1].page_info
             IN  /\ Len(page_info) = Len(inp.pil_img_list)
                 /\ \A i \in 1..Len(page_info) :
                      /\ page_info[i].k = i - 1
                      /\ Len(page_info[i].v.img_list) = 1
                      /\ page_info[i].v.img_list[1].pos = FullPage(inp.pil_img_list[i])

\* two images of different sizes were written, and the package read back
C9_Witness ==
    /\ pc = "parsed"
    /\ ofdb64 = pkg
    /\ inp.op = "jpg2ofd"
    /\ inp.pil_img_list = << <<480, 240>>, <<100, 50>> >>
    /\ out.doc_list[1].page_info[2].v.img_list[1].pos =
          <<Flt(0, 1), Flt(0, 1), Flt(635, 24), Flt(635, 48)>>

\* C10: when the container has no OFD.xml (root_doc of the path map is
\* empty), parser does not fail and returns a document model.
C10_RootFallback ==
    (path_map # <<>> /\ ~Truthy(TreeGet(path_map, <<Word("root_doc")>>))
       /\ pc # "unzipped") =>
        (pc = "parsed" /\ out.exc = "" /\ Len(out.doc_list) = 1)

-----------------------------------------------------------------------------
(* Two packaging calls in one working directory: each session makes one    *)
(* call of OFDStructure.__call__, and the steps of the two interleave.      *)

ioVars == <<pc, inp, pkg, ofdb64, path_map, disk, out>>

InitPack ==
    /\ InitFacade /\ InitAlloc /\ InitIO
    /\ \E test \in BOOLEAN : pack = [NoPack EXCEPT !.test = test]
    /\ call = NoCall /\ gui = NoGui /\ font_tool = NoFontTool

\* os.makedirs("./test", exist_ok=True); self._clear_dir(temp_dir)
PackClear ==
    /\ \E p \in Sessions :
         /\ pack.at[p] = "idle"
         /\ pack' = SetDir(Stepped(pack, p, "cleared"), temp_dir(pack.test, p),
                           clear_dir(pack.dir[temp_dir(pack.test, p)]))
    /\ UNCHANGED <<facadeVars, allocVars, ioVars, call, gui, font_tool>>

\* for i in [temp_dir_doc_0, temp_dir_pages, temp_dir_res]: os.mkdir(i)
PackMkdir ==
    /\ \E p \in Sessions :
         /\ pack.at[p] = "cleared"
         /\ pack' = DirStep(pack, p, mkdir_doc(pack.dir[temp_dir(pack.test, p)]), "made")
    /\ UNCHANGED <<facadeVars, allocVars, ioVars, call, gui, font_tool>>

\* self.ofd.save(...)
PackSaveRoot ==
    /\ \E p \in Sessions :
         /\ pack.at[p] = "made"
         /\ pack' = DirStep(pack, p, save_root(pack.dir[temp_dir(pack.test, p)], p), "root")
    /\ UNCHANGED <<facadeVars, allocVars, ioVars, call, gui, font_tool>>

\* update_max_unit_id and the saves into Doc_0
PackSaveDoc ==
    /\ \E p \in Sessions :
         /\ pack.at[p] = "root"
         /\ pack' = DirStep(pack, p, save_doc(pack.dir[temp_dir(pack.test, p)], p), "doc")
    /\ UNCHANGED <<facadeVars, allocVars, ioVars, call, gui, font_tool>>

\* the loop over content_res
PackSavePages ==
    /\ \E p \in Sessions :
         /\ pack.at[p] = "doc"
         /\ pack' = DirStep(pack, p, save_pages(pack.dir[temp_dir(pack.test, p)], p), "pages")
    /\ UNCHANGED <<facadeVars, allocVars, ioVars, call, gui, font_tool>>

\* the loop over res_static
PackSaveStatic ==
    /\ \E p \in Sessions :
         /\ pack.at[p] = "pages"
         /\ pack' = DirStep(pack, p, save_static(pack.dir[temp_dir(pack.test, p)], p), "static")
    /\ UNCHANGED <<facadeVars, allocVars, ioVars, call, gui, font_tool>>

\* zip = zipfile.ZipFile("test.ofd", "w", ...)
PackZipOpen ==
    /\ \E p \in Sessions :
         /\ pack.at[p] = "static"
         /\ \E o \in {zip_open(pack.linked, pack.store, p)} :
              pack' = [Stepped(pack, p, "open") EXCEPT
                          !.linked = o.linked,
                          !.store = o.store,
                          !.fd = [q \in Sessions |-> IF q = p THEN o.fd ELSE pack.fd[q]]]
    /\ UNCHANGED <<facadeVars, allocVars, ioVars, call, gui, font_tool>>

\* the os.walk loop with zip.write, and zip.close()
PackZipWrite ==
    /\ \E p \in Sessions :
         /\ pack.at[p] = "open"
         /\ pack' = [Stepped(pack, p, "closed") EXCEPT
                        !.store = [i \in 1..2 |->
                                     IF i = pack.fd[p]
                                     THEN zip_write(pack.store[i],
                                                    pack.dir[temp_dir(pack.test, p)])
                                     ELSE pack.store[i]]]
    /\ UNCHANGED <<facadeVars, allocVars, ioVars, call, gui, font_tool>>

\* with open("test.ofd", "rb") as f: content = f.read()
PackReadBack ==
    /\ \E p \in Sessions :
         /\ pack.at[p] = "closed"
         /\ \E r \in {read_back(pack.linked, pack.store)} :
              pack' = IF r.exc # "" THEN Raised(pack, p, r.exc)
                      ELSE [Stepped(pack, p, "read") EXCEPT
                               !.result = [q \in Sessions |->
                                             IF q = p THEN r ELSE pack.result[q]]]
    /\ UNCHANGED <<facadeVars, allocVars, ioVars, call, gui, font_tool>>

\* os.remove("test.ofd") if it exists; return content
PackReturn ==
    /\ \E p \in Sessions :
         /\ pack.at[p] = "read"
         /\ pack' = [Stepped(pack, p, "done") EXCEPT !.linked = remove_output(pack.linked)]
    /\ UNCHANGED <<facadeVars, allocVars, ioVars, call, gui, font_tool>>

NextPack ==
    \/ PackClear \/ PackMkdir \/ PackSaveRoot \/ PackSaveDoc \/ PackSavePages
    \/ PackSaveStatic
    \/ PackZipOpen \/ PackZipWrite \/ PackReadBack \/ PackReturn

SpecPack == InitPack /\ [][NextPack]_vars

\* C12: two packaging calls that overlap can end with one of them returning
\* bytes that are not the archive of its own session (the other's content, a
\* mixture) or failing on a missing file, and this comes from the overlap on
\* the one output file name: a call that no step of the other call overlapped
\* returns the archive of its own session.
C12_WrongOnlyByOverlap ==
    \A p \in Sessions :
        /\ (pack.at[p] \in {"done", "raised"} /\ ~pack.overlap[p]) =>
              (pack.at[p] = "done" /\ pack.result[p] = [exc |-> "", content |-> Own(p)])
        /\ pack.at[p] = "raised" =>
              pack.result[p].exc \in {"FileExistsError", "FileNotFoundError"}

\* with each session in its own temporary directory, session 1 has returned
\* the archive of session 2
C12_Witness ==
    /\ ~pack.test
    /\ pack.at[1] = "done"
    /\ pack.result[1] = [exc |-> "", content |-> Own(2)]

\* in ./test, a call returned a mixture
C12_WitnessMixed ==
    /\ pack.test
    /\ \E p \in Sessions :
         /\ pack.at[p] = "done"
         /\ pack.result[p].content.kind = "zip"
         /\ \E f, g \in TreeFiles :
              /\ pack.result[p].content.files[f] = 1
              /\ pack.result[p].content.files[g] = 2

\* a call failed because the output file was gone
C12_WitnessMissing ==
    \E p \in Sessions :
        pack.at[p] = "raised" /\ pack.result[p].exc = "FileNotFoundError"
            /\ pack.fd[p] # 0

\* C22: of two packaging calls into ./test that do not overlap, each returns
\* an archive of exactly the members of its own session: OFD.xml, the Doc_0
\* members, one Content.xml per content template and its static resources,
\* each as this call wrote it, and no page directory or resource file that
\* the earlier call left.
C22_OnlyOwnMembers ==
    \A p \in Sessions :
        (pack.test /\ ~pack.overlap[p] /\ pack.at[p] \in {"done", "raised"}) =>
            /\ pack.at[p] = "done"
            /\ pack.result[p].exc = ""
            /\ pack.result[p].content.kind = "zip"
            /\ \A f \in TreeFiles :
                  pack.result[p].content.files[f] = IF f \in FilesOf(p) THEN p ELSE 0

\* both calls into ./test have returned, one after the other: the archive of
\* the call with one page has no second page, the archive of the call
\* without resources has no resource file
C22_Witness ==
    /\ pack.test
    /\ \A p \in Sessions : pack.at[p] = "done" /\ ~pack.overlap[p]
    /\ pack.result[1].content.files["Page_1/Content.xml"] = 0
    /\ pack.result[2].content.files["Res/Image_0.jpg"] = 0
    /\ pack.result[2].content.files["Page_1/Content.xml"] = 2

-----------------------------------------------------------------------------
(* Reading documents that no writer of this package made: pages with and   *)
(* without a PhysicalBox of their own, template pages, content nodes with   *)
(* and without their attributes.  A page is [no, area, nodes], a template   *)
(* page [no, nodes], a node [kind, ok, node].                               *)

TextNode(id, y) ==
    [kind |-> "text", ok |-> TRUE,
     node |-> Dict(<<KV("@ID", Dec(id)), KV("@Boundary", Nums(<<0, y, 10, 5>>)),
                     KV("@Font", Str("1")), KV("@Size", Nums(<<4>>)),
                     KV("ofd:TextCode", Dict(<<KV("#text", Text(2)), KV("@X", Nums(<<0>>)),
                                              KV("@Y", Nums(<<4>>))>>))>>)]
PathNode(id, y) ==
    [kind |-> "path", ok |-> TRUE,
     node |-> Dict(<<KV("@ID", Dec(id)), KV("@Boundary", Nums(<<0, y, 10, 5>>)),
                     KV("@LineWidth", Nums(<<1>>)),
                     KV("ofd:AbbreviatedData", Str("M 0 0 L 10 0"))>>)]
ImageNode(id, y) ==
    [kind |-> "image", ok |-> TRUE,
     node |-> Dict(<<KV("@ID", Dec(id)), KV("@Boundary", Nums(<<0, y, 10, 5>>)),
                     KV("@ResourceID", Str("2"))>>)]
\* the node without its @Boundary
Lacking(n) == [kind |-> n.kind, ok |-> FALSE, node |-> PopKey(n.node, "@Boundary")]

OfKind(nodes, kind) ==
    LET of_kind == SelectSeq(nodes, LAMBDA n : n.kind = kind)
    IN  [i \in 1..Len(of_kind) |-> of_kind[i].node]

\* the ofd:Area of a page: its own box, none, a box of one number, an
\* element holding text, a box with a token that is no number
AreaKinds == {"own", "none", "short", "text", "bad"}
AreaOf(area) ==
    CASE area = "own" ->
           <<KV("ofd:Area", Dict(<<KV("ofd:PhysicalBox", Nums(<<0, 0, 210, 297>>))>>))>>
      [] area = "short" ->
           <<KV("ofd:Area", Dict(<<KV("ofd:PhysicalBox", Nums(<<5>>))>>))>>
      [] area = "text" -> <<KV("ofd:Area", Str("wide"))>>
      [] area = "bad" ->
           <<KV("ofd:Area", Dict(<<KV("ofd:PhysicalBox",
                 Chars(<<Zero, Zero, [w |-> "", i |-> <<1>>, f |-> <<>>, e |-> "x"]>>))>>))>>
      [] OTHER -> <<>>

\* the Content.xml of a page or of a template page
ContentJson(area, nodes) ==
    Dict(<<KV("ofd:Page", Dict(
        <<KV("@xmlns:ofd", xmlns)>> \o AreaOf(area) \o
        <<KV("ofd:Content", Dict(<<
            KV("ofd:Layer", Dict(<<
                KV("@ID", Dec(1)),
                KV("ofd:TextObject", List(OfKind(nodes, "text"))),
                KV("ofd:PathObject", List(OfKind(nodes, "path"))),
                KV("ofd:ImageObject", List(OfKind(nodes, "image")))>>))>>))>>))>>)

PagePath(n) == <<Word("Pages"), Name("Page_", n), XmlFile("Content")>>
TplPath(n) == <<Word("Tpls"), Name("Tpl_", n), XmlFile("Content")>>

\* the Document.xml that lists the pages and the template pages
DocumentJson(pages, tpls) ==
    Dict(<<KV("ofd:Document", Dict(<<
        KV("@xmlns:ofd", xmlns),
        KV("ofd:CommonData", Dict(<<
            KV("ofd:PageArea", Dict(<<KV("ofd:PhysicalBox", Nums(<<0, 0, 140, 90>>))>>)),
            KV("ofd:TemplatePage", List([j \in 1..Len(tpls) |->
                Dict(<<KV("@ID", Dec(20 + j)), KV("@BaseLoc", Path(TplPath(tpls[j].no)))>>)]))>>)),
        KV("ofd:Pages", Dict(<<
            KV("ofd:Page", List([i \in 1..Len(pages) |->
                Dict(<<KV("@ID", Dec(10 + i)),
                       KV("@BaseLoc", Path(PagePath(pages[i].no)))>>)]))>>))>>))>>)

\* the container of a document
Container(pages, tpls) ==
    [zip |-> TRUE,
     members |->
        <<XmlMember(<<XmlFile("OFD")>>, OFDTemplate_ofdjson),
          XmlMember(<<Name("Doc_", 0), XmlFile("Document")>>, DocumentJson(pages, tpls))>>
        \o [i \in 1..Len(pages) |->
              XmlMember(<<Name("Doc_", 0)>> \o PagePath(pages[i].no),
                        ContentJson(pages[i].area, pages[i].nodes))]
        \o [j \in 1..Len(tpls) |->
              XmlMember(<<Name("Doc_", 0)>> \o TplPath(tpls[j].no),
                        ContentJson("none", tpls[j].nodes))]]

\* page n with one node of each kind at height 2 + 4 * n, a template page
\* with one node of each kind at height 4
PlainPage(n, area) ==
    [no |-> n, area |-> area,
     nodes |-> <<TextNode(30 + n, 2 + 4 * n), PathNode(40 + n, 2 + 4 * n),
                 ImageNode(50 + n, 2 + 4 * n)>>]
TplPage(n) ==
    [no |-> n, nodes |-> <<TextNode(60 + n, 4), PathNode(70 + n, 4), ImageNode(80 + n, 4)>>]

\* documents with template pages; documents whose pages differ in their area
ReadDocs ==
    {Container([i \in 1..Len(ps) |-> PlainPage(ps[i], "own")],
               [j \in 1..Len(ts) |-> TplPage(ts[j])]) :
        ps \in {<<0>>, <<0, 1>>, <<1, 0>>},
        ts \in {<<>>, <<0>>, <<1>>, <<0, 1>>, <<5>>}}
    \cup
    {Container([i \in 1..Len(as) |-> PlainPage(i - 1, as[i])], <<>>) :
        as \in SeqsUpTo(AreaKinds, MaxPages) \ {<<>>}}

InitRead ==
    /\ InitFacade /\ InitAlloc /\ InitTools
    /\ pc = "written"
    /\ inp = NoInput
    /\ pkg \in ReadDocs
    /\ ofdb64 = NoPackage
    /\ path_map = <<>>
    /\ disk = NoFiles
    /\ out = NoOut

NextRead == Unzip \/ Parse

SpecRead == InitRead /\ [][NextRead]_vars

\* what the path map holds of the document: the parsed Document.xml, the
\* number of a page or template page, the items of its own Content.xml
ReadDocument ==
    DocumentFileParser_call(
        get_xml_obj(path_map, Path(<<Name("Doc_", 0), XmlFile("Document")>>)).val)
NumberOf(loc, idx) == IF FirstDigits(loc).found THEN FirstDigits(loc).val ELSE idx
OwnItems(loc) == ContentFileParser_call(get_xml_obj(path_map, loc).val)

\* two lists hold the same items, each as often
SameItems(a, b) ==
    /\ Len(a) = Len(b)
    /\ \A i \in 1..Len(a) :
          Cardinality({j \in 1..Len(a) : a[j] = a[i]}) =
          Cardinality({j \in 1..Len(b) : b[j] = a[i]})

RECURSIVE TplItems(_, _, _, _)
TplItems(tpls, j, n, list) ==
    IF j > Len(tpls) THEN <<>>
    ELSE (IF NumberOf(tpls[j], j - 1) = n THEN OwnItems(tpls[j])[list] ELSE <<>>)
         \o TplItems(tpls, j + 1, n, list)

\* C18: after a parse that returns, each list of the page numbered n holds
\* the page's own items and those of the template pages numbered n, and
\* nothing else.
C18_TemplateToItsPage ==
    pc = "parsed" =>
        LET document == ReadDocument
        IN  \A i \in 1..Len(document.page) :
                LET n == NumberOf(document.page[i], i - 1)
                    page == PageOf(out.doc_list[1].page_info, n)
                IN  \A list \in {"text_list", "img_list", "line_list"} :
                        SameItems(page[list],
                                  OwnItems(document.page[i])[list]
                                    \o TplItems(document.tpls, 1, n, list))

\* a parse of a document with a template page has returned
C18_Witness ==
    /\ pc = "parsed"
    /\ ReadDocument.tpls # <<>>
    /\ \E i \in 1..Len(out.doc_list[1].page_info) :
          Len(out.doc_list[1].page_info[i].v.text_list) = 2

\* C19: after a parse that returns, page_size has one entry per page of the
\* page list, in its order: the numbers of the page's own PhysicalBox, or
\* the empty list; default_page_size is that of the document.
C19_OneSizePerPage ==
    pc = "parsed" =>
        LET document == ReadDocument
            page_size == out.doc_list[1].page_size
        IN  /\ Len(page_size) = Len(document.page)
            /\ \A i \in 1..Len(page_size) :
                  LET own == page_size_of(get_xml_obj(path_map, document.page[i]).val)
                  IN  /\ page_size[i].extra = 0
                      /\ page_size[i].vals =
                            IF own.exc = "" /\ Len(own.val) >= 2 THEN own.val ELSE <<>>
            /\ out.doc_list[1].default_page_size = default_page_size_of(document.size)

\* a parse of two pages has returned, the second page without a box
C19_Witness ==
    /\ pc = "parsed"
    /\ Len(ReadDocument.page) = 2
    /\ Len(out.doc_list[1].page_size) = 2
    /\ out.doc_list[1].page_size[2].vals = <<>>

-----------------------------------------------------------------------------
(* Documents whose page list names its pages in several ways: a location    *)
(* under the document ("Pages/Page_1/Content.xml"), a location from the     *)
(* root of the package ("/Doc_0/Pages/Page_1/Content.xml"), a page          *)
(* directory without a number ("Pages/Cover/Content.xml").                  *)

CoverPath == <<Word("Pages"), Word("Cover"), XmlFile("Content")>>
\* a page of the list: how it is named, and its number
ListedPages ==
    {[style |-> "rel", no |-> 0], [style |-> "rel", no |-> 1],
     [style |-> "abs", no |-> 0], [style |-> "abs", no |-> 1],
     [style |-> "named", no |-> 7]}
\* the member of the page below Doc_0, and its @BaseLoc
PageMember(pg) == IF pg.style = "named" THEN CoverPath ELSE PagePath(pg.no)
PageLoc(pg) ==
    IF pg.style = "abs" THEN <<Word(""), Name("Doc_", 0)>> \o PagePath(pg.no)
    ELSE PageMember(pg)

ListedDocumentJson(pages) ==
    Dict(<<KV("ofd:Document", Dict(<<
        KV("@xmlns:ofd", xmlns),
        KV("ofd:CommonData", Dict(<<
            KV("ofd:PageArea", Dict(<<KV("ofd:PhysicalBox", Nums(<<0, 0, 140, 90>>))>>))>>)),
        KV("ofd:Pages", Dict(<<
            KV("ofd:Page", List([i \in 1..Len(pages) |->
                Dict(<<KV("@ID", Dec(10 + i)),
                       KV("@BaseLoc", Path(PageLoc(pages[i])))>>)]))>>))>>))>>)

ListedContainer(pages) ==
    [zip |-> TRUE,
     members |->
        <<XmlMember(<<XmlFile("OFD")>>, OFDTemplate_ofdjson),
          XmlMember(<<Name("Doc_", 0), XmlFile("Document")>>, ListedDocumentJson(pages))>>
        \o [i \in 1..Len(pages) |->
              XmlMember(<<Name("Doc_", 0)>> \o PageMember(pages[i]),
                        ContentJson("own", PlainPage(pages[i].no, "own").nodes))]]

\* the documents of up to MaxPages pages, each page a member of its own
ListedDocs ==
    {ListedContainer(ps) :
        ps \in {q \in SeqsUpTo(ListedPages, MaxPages) \ {<<>>} :
                  \A i, j \in 1..Len(q) : i # j => PageMember(q[i]) # PageMember(q[j])}}

InitListed ==
    /\ InitFacade /\ InitAlloc /\ InitTools
    /\ pc = "written"
    /\ inp = NoInput
    /\ pkg \in ListedDocs
    /\ ofdb64 = NoPackage
    /\ path_map = <<>>
    /\ disk = NoFiles
    /\ out = NoOut

NextListed == Unzip \/ Parse

SpecListed == InitListed /\ [][NextListed]_vars

\* the numbers that are keys of page_info
PageNumbers == {out.doc_list[1].page_info[i].k : i \in 1..Len(out.doc_list[1].page_info)}

\* C29: after a parse that returns, page_info has one entry per page of the
\* page list (no two pages share a page number), and every value of
\* page_id_map is a key of page_info.
C29_OneEntryPerPage ==
    pc = "parsed" =>
        /\ Len(out.doc_list[1].page_info) = Len(ReadDocument.page)
        /\ \A i \in 1..Len(out.doc_list[1].page_id_map) :
              out.doc_list[1].page_id_map[i].v \in PageNumbers

\* the pages "/Doc_0/Pages/Page_0/Content.xml" and
\* "/Doc_0/Pages/Page_1/Content.xml" parsed: both are page 0, page_info has
\* the single entry 0, holding the content of the second page
C29_Witness ==
    /\ pc = "parsed"
    /\ ReadDocument.page = <<Path(PageLoc([style |-> "abs", no |-> 0])),
                              Path(PageLoc([style |-> "abs", no |-> 1]))>>
    /\ PageNumbers = {0}
    /\ Len(out.doc_list[1].page_info) = 1
    /\ out.doc_list[1].page_info[1].v = OwnItems(ReadDocument.page[2])

\* every value of page_id_map is a key of page_info, and the pages of a
\* list whose pages have numbers of their own have an entry each
C29_EntryWhenNumbersDiffer ==
    pc = "parsed" =>
        /\ \A i \in 1..Len(out.doc_list[1].page_id_map) :
              out.doc_list[1].page_id_map[i].v \in PageNumbers
        /\ (\A i, j \in 1..Len(ReadDocument.page) :
                i # j => NumberOf(ReadDocument.page[i], i - 1)
                            # NumberOf(ReadDocument.page[j], j - 1))
              => Len(out.doc_list[1].page_info) = Len(ReadDocument.page)

-----------------------------------------------------------------------------
(* Documents with image resources: DocumentRes.xml lists up to MaxMedia     *)
(* media files of the formats that parser() converts, some of them with     *)
(* bytes that are no image, and the reader's machine has no jbig2dec, one   *)
(* that fails or one that converts.                                         *)

MediaName(i, ext) == File("Image_", i, ext)

\* a media file of the resource table: its extension and its bytes
MediaKinds ==
    {[ext |-> ".bmp", bytes |-> ImageData("bmp", 4, 3)],
     [ext |-> ".bmp", bytes |-> Junk],
     [ext |-> ".tif", bytes |-> Junk],
     [ext |-> ".gif", bytes |-> ImageData("gif", 4, 3)],
     [ext |-> ".jb2", bytes |-> ImageData("jb2", 4, 3)]}

MediaDocumentJson ==
    Dict(<<KV("ofd:Document", Dict(<<
        KV("@xmlns:ofd", xmlns),
        KV("ofd:CommonData", Dict(<<
            KV("ofd:PageArea", Dict(<<KV("ofd:PhysicalBox", Nums(<<0, 0, 140, 90>>))>>)),
            KV("ofd:DocumentRes", Path(<<XmlFile("DocumentRes")>>))>>)),
        KV("ofd:Pages", Dict(<<
            KV("ofd:Page", Dict(<<KV("@ID", Dec(11)),
                                  KV("@BaseLoc", Path(PagePath(0)))>>))>>))>>))>>)

MediaResJson(media) ==
    Dict(<<KV("ofd:Res", Dict(<<
        KV("@xmlns:ofd", xmlns),
        KV("@BaseLoc", Path(<<Word("Res")>>)),
        KV("ofd:MultiMedias", Dict(<<
            KV("ofd:MultiMedia", List([i \in 1..Len(media) |->
                Dict(<<KV("@ID", Dec(i)),
                       KV("@Type", Str("Image")),
                       KV("ofd:MediaFile",
                          Path(<<MediaName(i, media[i].ext)>>))>>)]))>>))>>))>>)

MediaContainer(media) ==
    [zip |-> TRUE,
     members |->
        <<XmlMember(<<XmlFile("OFD")>>, OFDTemplate_ofdjson),
          XmlMember(<<Name("Doc_", 0), XmlFile("Document")>>, MediaDocumentJson),
          XmlMember(<<Name("Doc_", 0), XmlFile("DocumentRes")>>, MediaResJson(media)),
          XmlMember(<<Name("Doc_", 0)>> \o PagePath(0),
                    ContentJson("own", PlainPage(0, "own").nodes))>>
        \o [i \in 1..Len(media) |->
              BinMember(<<Name("Doc_", 0), Word("Res"), MediaName(i, media[i].ext)>>,
                        media[i].bytes)]]

MediaDocs == {MediaContainer(media) : media \in SeqsUpTo(MediaKinds, MaxMedia)}

InitMedia ==
    /\ InitFacade /\ InitAlloc /\ InitTools
    /\ pc = "written"
    /\ inp = NoInput
    /\ pkg \in MediaDocs
    /\ ofdb64 = NoPackage
    /\ path_map = <<>>
    /\ disk \in {[NoFiles EXCEPT !.jbig2dec = tool] : tool \in {"absent", "fails", "converts"}}
    /\ out = NoOut

NextMedia == Unzip \/ Parse

SpecMedia == InitMedia /\ [][NextMedia]_vars

\* the media files of the package that was read
MediaOf(p) == SelectSeq(p.members, LAMBDA m : ~IsXmlName(m.path[Len(m.path)]))

\* the conversion of this media file fails
ConversionFails(m) ==
    \/ m.path[Len(m.path)].e \in {".bmp", ".tif", ".gif"} /\ m.bytes = Junk
    \/ m.path[Len(m.path)].e = ".jb2" /\ jbig2dec = "fails"

\* the entry of the image table is the media file as it was read
PriorState(img, m) ==
    /\ img.fileName = Path(<<m.path[Len(m.path)]>>)
    /\ img.suffix = m.path[Len(m.path)].e
    /\ img.format = Str("")
    /\ img.imgb64 = b64encode(m.bytes)

\* C21: when the whole package has been read and the conversion of some of
\* its image resources fails, parse() still returns: each such resource has
\* its prior file name, suffix, format and bytes, every resource of the
\* table is returned and the page is returned too.
C21_ConversionFailureKept ==
    (/\ pc \in {"parsed", "raised"} /\ ofdb64 = pkg
     /\ \E i \in 1..Len(MediaOf(pkg)) : ConversionFails(MediaOf(pkg)[i])) =>
        /\ out.exc = ""
        /\ Len(out.doc_list) = 1
        /\ Len(out.doc_list[1].images) = Len(MediaOf(pkg))
        /\ \A i \in 1..Len(MediaOf(pkg)) :
              ConversionFails(MediaOf(pkg)[i]) =>
                  PriorState(out.doc_list[1].images[i].v, MediaOf(pkg)[i])
        /\ Len(out.doc_list[1].page_info) = 1

\* a jb2 resource that jbig2dec failed to convert is returned in its prior
\* state, after it a bmp resource converted to jpg
C21_Witness ==
    /\ pc = "parsed" /\ ofdb64 = pkg
    /\ jbig2dec = "fails"
    /\ Len(MediaOf(pkg)) = 2
    /\ PriorState(out.doc_list[1].images[1].v, MediaOf(pkg)[1])
    /\ out.doc_list[1].images[2].v.suffix = ".jpg"

\* a failure of jbig2dec alone never stops parse()
C21_Jb2FailureKept ==
    (/\ pc \in {"parsed", "raised"} /\ ofdb64 = pkg
     /\ \A i \in 1..Len(MediaOf(pkg)) : MediaOf(pkg)[i].bytes # Junk) =>
        /\ out.exc = ""
        /\ \A i \in 1..Len(MediaOf(pkg)) :
              ConversionFails(MediaOf(pkg)[i]) =>
                  PriorState(out.doc_list[1].images[i].v, MediaOf(pkg)[i])

-----------------------------------------------------------------------------
(* The fonts over the conversions of one process (draw/font_tools.py,       *)
(* draw/draw_pdf.py).  Every conversion makes its DrawPDF, and DrawPDF      *)
(* makes its FontTool; register_font and the font lookup of draw_chars act  *)
(* on the FontTool of the conversion under way.  The font registry of the   *)
(* PDF library belongs to the process.                                      *)

\* what get_installed_fonts() finds on the machine
InstalledFonts == {<<>>, <<"SongTi">>, <<"SongTi", "KaiTi">>}
\* the font bytes handed to register_font: none, a font, bytes that are no font
FontBytes == {"", "ttf", "junk"}

\* FontTool.__init__: self.FONTS = self.get_installed_fonts()
FontTool_init(installed) == installed

\* register_font(file_name, FontName, font_b64), file_name being
\* base + ".ttf": [FONTS, registered, name], name the font appended ("" if none)
register_font(self_FONTS, registered, base, FontName, font_b64) ==
    LET name == IF FontName = "" THEN base ELSE FontName
    IN  IF font_b64 = "" THEN [FONTS |-> self_FONTS, registered |-> registered, name |-> ""]
        ELSE IF font_b64 # "ttf"
        THEN [FONTS |-> self_FONTS, registered |-> registered, name |-> ""]
        ELSE [FONTS |-> Append(self_FONTS, name), registered |-> registered \cup {name},
              name |-> name]

\* the font lookup of draw_chars: [font, exc]
lookup_font(self_FONTS, font_name) ==
    IF \E i \in 1..Len(self_FONTS) : self_FONTS[i] = font_name
    THEN [font |-> font_name, exc |-> ""]
    ELSE IF self_FONTS = <<>> THEN [font |-> "", exc |-> "IndexError"]
    ELSE [font |-> self_FONTS[1], exc |-> ""]

InitFonts ==
    /\ InitFacade /\ InitAlloc /\ InitIO
    /\ pack = NoPack /\ call = NoCall /\ gui = NoGui
    /\ \E installed \in InstalledFonts :
         font_tool = [NoFontTool EXCEPT !.installed = installed]

\* DrawPDF.__init__ of the next conversion: self.font_tool = FontTool()
NewDrawPDF ==
    /\ font_tool.conv < MaxConversions
    /\ font_tool' = [font_tool EXCEPT !.conv = font_tool.conv + 1,
                                      !.FONTS = FontTool_init(font_tool.installed)]
    /\ UNCHANGED <<facadeVars, allocVars, ioVars, pack, call, gui>>

\* self.font_tool.register_font(file_name, FontName, font_b64)
RegisterFont ==
    /\ font_tool.conv >= 1
    /\ Len(font_tool.FONTS) < MaxKnown
    /\ \E base \in EmbeddedFonts, FontName \in EmbeddedFonts \cup {""}, font_b64 \in FontBytes :
         \E r \in {register_font(font_tool.FONTS, font_tool.registered, base, FontName,
                                 font_b64)} :
             font_tool' = [font_tool EXCEPT
                 !.FONTS = r.FONTS,
                 !.registered = r.registered,
                 !.at = [f \in EmbeddedFonts |->
                           IF f = r.name /\ font_tool.at[f] = 0 THEN font_tool.conv
                           ELSE font_tool.at[f]]]
    /\ UNCHANGED <<facadeVars, allocVars, ioVars, pack, call, gui>>

\* draw_chars, for one text run whose font is named font_name
DrawRun ==
    /\ font_tool.conv >= 1
    /\ \E font_name \in EmbeddedFonts \cup {"SongTi"} :
         \E r \in {lookup_font(font_tool.FONTS, font_name)} :
             font_tool' = [font_tool EXCEPT
                 !.run = [name |-> font_name, font |-> r.font, exc |-> r.exc,
                          since |-> IF font_name \in EmbeddedFonts
                                    THEN font_tool.at[font_name] ELSE 0]]
    /\ UNCHANGED <<facadeVars, allocVars, ioVars, pack, call, gui>>

NextFonts == NewDrawPDF \/ RegisterFont \/ DrawRun

SpecFonts == InitFonts /\ [][NextFonts]_vars

\* C23: a text run that names a font that register_font registered, in this
\* conversion or in an earlier one of the process, is drawn with that font
\* and not with the first known font.
C23_RegisteredFontStays ==
    font_tool.run.since # 0 =>
        (font_tool.run.exc = "" /\ font_tool.run.font = font_tool.run.name)

\* in the conversion that registered F1, a run naming F1 is drawn with F1
C23_Witness ==
    /\ font_tool.run.name = "F1"
    /\ font_tool.run.since = font_tool.conv
    /\ font_tool.run.font = "F1"

\* the registry of the process keeps the font, and within the conversion
\* that registered it the lookup finds it
C23_KnownWithinConversion ==
    /\ \A f \in EmbeddedFonts : font_tool.at[f] # 0 => f \in font_tool.registered
    /\ (font_tool.run.since # 0 /\ font_tool.run.since = font_tool.conv) =>
          font_tool.run.font = font_tool.run.name

-----------------------------------------------------------------------------
(* recursion_ext called on its own, on attribute trees of three levels: the *)
(* tag searched is "ofd:T", the other tag "ofd:U"; a value is a string, a   *)
(* dict or a list of strings and dicts.                                     *)

TreeKeys == {<<>>, <<"ofd:T">>, <<"ofd:U">>, <<"ofd:T", "ofd:U">>, <<"ofd:U", "ofd:T">>}
TreeLeaves == {Str("x"), Str("y")}
\* the dicts whose values are taken from vals
DictsOver(vals) ==
    UNION {{Dict([i \in 1..Len(ks) |-> KV(ks[i], vs[i])]) : vs \in [1..Len(ks) -> vals]} :
             ks \in TreeKeys}
InnerDicts == DictsOver(TreeLeaves)
InnerValues ==
    TreeLeaves \cup InnerDicts \cup {List(<<Str("x"), d>>) : d \in InnerDicts}
AttributeTrees == DictsOver(InnerValues)

InitExt ==
    /\ InitFacade /\ InitAlloc /\ InitIO
    /\ pack = NoPack /\ gui = NoGui /\ font_tool = NoFontTool
    /\ \E tree \in AttributeTrees :
         call = [args |-> [need_ext_obj |-> tree, key |-> "ofd:T"], done |-> FALSE,
                 result |-> <<>>]

\* ext_list = []; self.recursion_ext(need_ext_obj, ext_list, key)
CallRecursionExt ==
    /\ ~call.done
    /\ \E r \in {recursion_ext(call.args.need_ext_obj, <<>>, call.args.key)} :
         call' = [call EXCEPT !.done = TRUE, !.result = r]
    /\ UNCHANGED <<facadeVars, allocVars, ioVars, pack, gui, font_tool>>

NextExt == CallRecursionExt

SpecExt == InitExt /\ [][NextExt]_vars

\* the values of every occurrence of the tag in the tree, depth first in
\* document order, the occurrences inside the value of a match after it: a
\* dict or a string counts once, a list by each of its elements
RECURSIVE Occurrences(_, _)
RECURSIVE OccurrencesIn(_, _, _)
OccurrencesIn(cells, i, key) ==
    IF i > Len(cells) THEN <<>>
    ELSE LET k == cells[i].k
             v == cells[i].v
             here == IF k # key THEN <<>>
                     ELSE IF IsList(v) THEN Items(v) ELSE <<v>>
         IN  here \o Occurrences(v, key) \o OccurrencesIn(cells, i + 1, key)
Occurrences(tree, key) ==
    IF IsDict(tree) \/ IsList(tree) THEN OccurrencesIn(tree.c, 1, key) ELSE <<>>

\* an occurrence of the tag lies inside the value of another one
RECURSIVE NestedIn(_, _, _)
NestedIn(tree, key, inside) ==
    (IsDict(tree) \/ IsList(tree)) /\
    \E i \in 1..Len(tree.c) :
        \/ tree.c[i].k = key /\ inside
        \/ NestedIn(tree.c[i].v, key, inside \/ tree.c[i].k = key)

\* C24: recursion_ext returns the value of every occurrence of the tag in
\* the tree, those inside the value of another occurrence of the tag too, a
\* dict or a string as one entry and a list by its elements, depth first in
\* document order.
C24_EveryOccurrence ==
    call.done => call.result = Occurrences(call.args.need_ext_obj, call.args.key)

\* two occurrences of the tag, the second in a list under the other tag,
\* none of them inside another: both are returned, in document order
C24_Witness ==
    /\ call.done
    /\ ~NestedIn(call.args.need_ext_obj, call.args.key, FALSE)
    /\ call.result = <<Str("y"), Str("x")>>
    /\ \E i \in 1..Len(call.args.need_ext_obj.c) : IsList(call.args.need_ext_obj.c[i].v)

\* occurrences that are not inside the value of another one are all returned
C24_OutsideMatches ==
    (call.done /\ ~NestedIn(call.args.need_ext_obj, call.args.key, FALSE)) =>
        call.result = Occurrences(call.args.need_ext_obj, call.args.key)

-----------------------------------------------------------------------------
(* ContentFileParser on its own: the tree of a page of up to MaxNodes       *)
(* content nodes, some of them without their @Boundary, is handed to        *)
(* ContentFileParser(xml_obj)(); call holds the page and what the call gave *)

ContentNodes ==
    {TextNode(30, 2), Lacking(TextNode(31, 4)),
     PathNode(40, 2), Lacking(PathNode(41, 4)),
     ImageNode(50, 2), Lacking(ImageNode(51, 4))}

PageTrees == SeqsUpTo(ContentNodes, MaxNodes)

\* the tree xmltodict gives for the Content.xml of a page with these nodes
PageTree(nodes) == parse(unparse(ContentJson("own", nodes)))

InitContent ==
    /\ InitFacade /\ InitAlloc /\ InitIO
    /\ pack = NoPack /\ gui = NoGui /\ font_tool = NoFontTool
    /\ \E nodes \in PageTrees :
         call = [args |-> [nodes |-> nodes, xml_obj |-> PageTree(nodes)],
                 done |-> FALSE,
                 result |-> [exc |-> "", text_list |-> <<>>, img_list |-> <<>>,
                             line_list |-> <<>>]]

\* ContentFileParser(page_xml_obj)()
CallContentFileParser ==
    /\ ~call.done
    /\ \E r \in {ContentFileParser_call(call.args.xml_obj)} :
         call' = [call EXCEPT !.done = TRUE, !.result = r]
    /\ UNCHANGED <<facadeVars, allocVars, ioVars, pack, gui, font_tool>>

NextContent == CallContentFileParser

SpecContent == InitContent /\ [][NextContent]_vars

WellFormed(nodes) == SelectSeq(nodes, LAMBDA n : n.ok)

CountOf(nodes, kind) == Len(OfKind(WellFormed(nodes), kind))

\* C20: the Content Parser never raises because of a node that lacks its
\* @Boundary: the node is skipped, and text_list, line_list and img_list
\* hold what the page's well-formed nodes give, all of them and no other.
C20_MalformedNodeSkipped ==
    call.done =>
        LET rest == ContentFileParser_call(PageTree(WellFormed(call.args.nodes)))
        IN  /\ call.result.exc = ""
            /\ call.result.text_list = rest.text_list
            /\ call.result.line_list = rest.line_list
            /\ call.result.img_list = rest.img_list
            /\ Len(call.result.text_list) = CountOf(call.args.nodes, "text")
            /\ Len(call.result.line_list) = CountOf(call.args.nodes, "path")
            /\ Len(call.result.img_list) = CountOf(call.args.nodes, "image")

\* a page with a PathObject without @Boundary and well-formed nodes of the
\* three kinds has been parsed, and the call returned the well-formed nodes
C20_Witness ==
    /\ call.done
    /\ call.result.exc = ""
    /\ \E i \in 1..Len(call.args.nodes) : ~call.args.nodes[i].ok
    /\ Len(call.result.text_list) = 1
    /\ Len(call.result.line_list) = 1

\* without any malformed node the call returns every node of the page
C20_WellFormedReturned ==
    (call.done /\ WellFormed(call.args.nodes) = call.args.nodes) =>
        /\ call.result.exc = ""
        /\ Len(call.result.text_list) = CountOf(call.args.nodes, "text")
        /\ Len(call.result.line_list) = CountOf(call.args.nodes, "path")
        /\ Len(call.result.img_list) = CountOf(call.args.nodes, "image")

-----------------------------------------------------------------------------
(* OFDWrite.__call__ statement by statement (draw_ofd.py): pc is the build  *)
(* the call is about to make, built the templates made so far, each with    *)
(* the res_uuid carriers given to it (refs) and the uuids that the          *)
(* allocator held when it was constructed (known).                          *)

\* the head of __call__, up to id_obj = CurId(): the lists and maps that the
\* builds take; bound says that pdf_info_list was assigned
prepare(pdf_bytes, pil_img_list, optional_text, lenient) ==
    With(IF pil_img_list # <<>> THEN [exc |-> "", val |-> pil_img_list]
         ELSE IF optional_text THEN [exc |-> "", val |-> <<>>]
         ELSE to_img(pdf_bytes, lenient), LAMBDA imgs :
    With([i \in 1..Len(imgs.val) |-> page_pil_img(imgs.val[i])], LAMBDA page_pil_img_list :
    IF page_pil_img_list # <<>>
    THEN [exc |-> imgs.exc, bound |-> TRUE, n |-> Len(page_pil_img_list),
          PhysicalBox |-> Chars(<<Zero, Zero, NumTok(page_pil_img_list[1].w),
                                  NumTok(page_pil_img_list[1].h)>>),
          public_map |-> NoMap,
          pfd_res_uuid_map |->
              [given |-> TRUE,
               img |-> [idx \in 1..Len(page_pil_img_list) |->
                          [k |-> Dec(idx - 1), v |-> page_pil_img_list[idx].bytes]],
               font |-> <<>>, page_size |-> <<>>],
          page_pil_img_list |-> page_pil_img_list, pdf_info_list |-> <<>>]
    ELSE With(extract_text_with_details(pdf_bytes), LAMBDA extracted :
         [exc |-> imgs.exc, bound |-> optional_text,
          n |-> Len(extracted.pdf_info_list),
          PhysicalBox |-> Nums(<<0, 0, 140, 90>>),
          public_map |-> extracted.pfd_res_uuid_map,
          pfd_res_uuid_map |-> extracted.pfd_res_uuid_map,
          page_pil_img_list |-> <<>>, pdf_info_list |-> extracted.pdf_info_list])))

Prepared == prepare(inp.pdf_bytes, inp.pil_img_list, inp.optional_text, inp.lenient)

\* the Content templates are built before the resource templates
build_after_content_first(at) ==
    CASE at = "ofd_entrance" -> "document"
      [] at = "document" -> "content_res"
      [] at = "content_res" -> "public_res"
      [] at = "public_res" -> "document_res"
      [] OTHER -> "package"

\* the order of the builds in both branches of __call__
build_after(at) ==
    CASE at = "ofd_entrance" -> "document"
      [] at = "document" -> "public_res"
      [] at = "public_res" -> "document_res"
      [] at = "document_res" -> "content_res"
      [] OTHER -> "package"

\* the res_uuid values that the Content template of page idx (from 0) carries
content_refs(prepared, idx) ==
    IF prepared.page_pil_img_list # <<>> THEN {Dec(idx)}
    ELSE {prepared.pdf_info_list[idx + 1][b].res_uuid :
             b \in 1..Len(prepared.pdf_info_list[idx + 1])}

TemplateOf(kind) ==
    LET of_kind == SelectSeq(built, LAMBDA t : t.kind = kind)
    IN  [i \in 1..Len(of_kind) |-> of_kind[i].final_json]

InitOrder == InitFacade /\ InitAlloc /\ InitSession

\* a template is built: recorded, and the call goes on or ends
Made(kind, refs, r, then) ==
    /\ id_obj' = r.id_obj
    /\ built' = Append(built, [kind |-> kind, refs |-> refs,
                               known |-> DOMAIN id_obj.uuid_map,
                               final_json |-> r.final_json, exc |-> r.exc])
    /\ pc' = IF r.exc # "" THEN "raised" ELSE then
    /\ out' = [exc |-> r.exc, doc_list |-> <<>>]
    /\ UNCHANGED <<facadeVars, n_calls, ret, inp, pkg, ofdb64, path_map, disk, toolVars>>

\* OFDWrite()(pdf_bytes, pil_img_list, optional_text): the head of the call
StartWrite ==
    /\ pc = "idle"
    /\ \E pdf_bytes \in Pdfs \cup {NoPdf}, pil_img_list \in ImageLists,
          optional_text, lenient \in BOOLEAN :
         /\ pil_img_list # <<>> => (pdf_bytes = NoPdf /\ ~optional_text /\ ~lenient)
         /\ pdf_bytes # NoPdf => ~lenient
         /\ inp' = [op |-> IF pil_img_list # <<>> THEN "jpg2ofd" ELSE "pdf2ofd",
                    pdf_bytes |-> pdf_bytes, pil_img_list |-> pil_img_list,
                    optional_text |-> optional_text, lenient |-> lenient]
         /\ \E prepared \in {prepare(pdf_bytes, pil_img_list, optional_text, lenient)} :
              /\ pc' = IF prepared.exc # "" THEN "raised" ELSE "ofd_entrance"
              /\ out' = [exc |-> prepared.exc, doc_list |-> <<>>]
    /\ id_obj' = CurId_init
    /\ UNCHANGED <<facadeVars, n_calls, ret, built, pkg, ofdb64, path_map, disk, toolVars>>

\* self.build_ofd_entrance(id_obj=id_obj)
BuildOfdEntrance ==
    /\ pc = "ofd_entrance"
    /\ \E r \in {build_ofd_entrance(id_obj)} :
         Made("OFD", {}, r, build_after("ofd_entrance"))

\* self.build_document(...): in the branch of a PDF, len(pdf_info_list) of a
\* list that was never assigned raises
BuildDocument ==
    /\ pc = "document"
    /\ \E r \in {IF ~Prepared.bound
                 THEN [final_json |-> NoneV, id_obj |-> id_obj, exc |-> "UnboundLocalError"]
                 ELSE build_document(Prepared.n, id_obj, Prepared.PhysicalBox)} :
         Made("Document", {}, r, build_after("document"))

\* self.build_public_res(...)
BuildPublicResOf ==
    /\ pc = "public_res"
    /\ \E r \in {build_public_res(id_obj, Prepared.public_map)} :
         Made("PublicRes", {}, r, build_after("public_res"))

\* self.build_document_res(...)
BuildDocumentResOf ==
    /\ pc = "document_res"
    /\ \E r \in {build_document_res(Prepared.n, id_obj, Prepared.pfd_res_uuid_map)} :
         Made("DocumentRes", {}, r, build_after("document_res"))

\* self.build_content_res(...): one turn of its loop, or its end
BuildContentRes ==
    /\ pc = "content_res"
    /\ LET idx == Len(TemplateOf("Content"))
       IN  IF idx >= Prepared.n
           THEN /\ pc' = build_after("content_res")
                /\ UNCHANGED <<facadeVars, allocVars, inp, pkg, ofdb64, path_map, disk,
                               out, toolVars>>
           ELSE \E r \in {IF Prepared.page_pil_img_list # <<>>
                          THEN image_content(Prepared.page_pil_img_list[idx + 1], idx, id_obj)
                          ELSE pdf_content(Prepared.pdf_info_list[idx + 1], idx, id_obj,
                                           Prepared.pfd_res_uuid_map)} :
                    Made("Content", content_refs(Prepared, idx), r, "content_res")

\* OFDStructure(...)(test=True)
PackageOfd ==
    /\ pc = "package"
    /\ \E structure \in {OFDStructure_init(TemplateOf("OFD")[1], TemplateOf("Document")[1],
                                           TemplateOf("DocumentRes")[1],
                                           TemplateOf("PublicRes")[1],
                                           TemplateOf("Content"),
                                           [i \in 1..Len(Prepared.pfd_res_uuid_map.img) |->
                                              [k |-> ImageName(Prepared.pfd_res_uuid_map.img[i].k),
                                               v |-> Prepared.pfd_res_uuid_map.img[i].v]])} :
         pkg' = [zip |-> TRUE, members |-> OFDStructure_call(structure, id_obj)]
    /\ pc' = "written"
    /\ UNCHANGED <<facadeVars, allocVars, inp, ofdb64, path_map, disk, out, toolVars>>

NextOrder ==
    \/ StartWrite \/ BuildOfdEntrance \/ BuildDocument \/ BuildPublicResOf
    \/ BuildDocumentResOf \/ BuildContentRes \/ PackageOfd

SpecOrder == InitOrder /\ [][NextOrder]_vars

\* the statements together are the call: what OFDWrite_call returns or raises
OrderIsCall ==
    pc \in {"written", "raised"} =>
        LET r == OFDWrite_call(inp.pdf_bytes, inp.pil_img_list, inp.optional_text,
                               inp.lenient)
        IN  /\ out.exc = r.exc
            /\ pc = "written" => pkg = r.ofd_byte

\* C17: when a Content template is constructed, the PublicRes and the
\* DocumentRes template of the call are constructed already, and the
\* allocator holds every res_uuid that the Content template carries.
C17_ResourcesFirst ==
    \A j \in 1..Len(built) :
        built[j].kind = "Content" =>
            /\ \E i \in 1..(j - 1) : built[i].kind = "PublicRes" /\ built[i].exc = ""
            /\ \E i \in 1..(j - 1) : built[i].kind = "DocumentRes" /\ built[i].exc = ""
            /\ built[j].refs \subseteq built[j].known

\* a call of each of the three kinds has built a Content template
C17_Witness ==
    /\ inp.op = "pdf2ofd" /\ inp.optional_text
    /\ \E j \in 1..Len(built) : built[j].kind = "Content" /\ built[j].refs # {}
C17_WitnessImages ==
    /\ inp.op = "jpg2ofd"
    /\ \E j \in 1..Len(built) : built[j].kind = "Content" /\ built[j].refs # {}
C17_WitnessPages ==
    /\ inp.op = "pdf2ofd" /\ ~inp.optional_text
    /\ \E j \in 1..Len(built) : built[j].kind = "Content" /\ built[j].refs # {}

-----------------------------------------------------------------------------
(* MainWindow (main5.py): the text field file_path, the files of the       *)
(* directory, the message box shown last and what the last conversion made. *)
(* The texts of the message boxes are given in English.                     *)

\* str.lower on an extension
lower(ext) ==
    CASE ext = ".PDF" -> ".pdf"
      [] ext = ".OFD" -> ".ofd"
      [] OTHER -> ext

\* os.path.isfile
isfile(files, name) == name \in DOMAIN files /\ files[name].kind = "file"

\* the check that never finds the output
output_free(files, output) == FALSE

\* os.path.isfile(output) of convert_file
output_taken(files, output) == isfile(files, output)

\* swap_pdf_ofd_path: [exc, val]
swap_pdf_ofd_path(file_path) ==
    LET ext_lower == lower(file_path.ext)
    IN  IF ext_lower = ".pdf"
        THEN [exc |-> "", val |-> FileName(file_path.base, ".ofd")]
        ELSE IF ext_lower = ".ofd"
        THEN [exc |-> "", val |-> FileName(file_path.base, ".pdf")]
        ELSE [exc |-> "ValueError", val |-> NoName]

\* save_file: open(name, "wb") and f.write; [exc, files]
save_file(files, name, bytes_) ==
    IF name \notin DOMAIN files THEN [exc |-> "FileNotFoundError", files |-> files]
    ELSE IF files[name].kind = "dir" THEN [exc |-> "IsADirectoryError", files |-> files]
    ELSE [exc |-> "",
          files |-> [n \in DOMAIN files |-> IF n = name THEN FileOf(bytes_) ELSE files[n]]]

\* read_ofd: the Base64 text of the bytes of the file, as ofd.read takes it
read_ofd(files, name) ==
    [form |-> "b64",
     content |-> IF files[name].bytes.form = "ofd" THEN files[name].bytes.ofd
                 ELSE NoPackage]

\* read_pfd: the bytes of the file
read_pfd(files, name) == files[name].bytes

\* OFD.pdf2ofd: [exc, ofd_byte]; bytes that are no PDF do not open
pdf2ofd(pdfbyte, optional_text) ==
    IF pdfbyte.form = "empty" THEN [exc |-> "AssertionError", ofd_byte |-> NoPackage]
    ELSE IF pdfbyte.form # "pdf" THEN [exc |-> "FileDataError", ofd_byte |-> NoPackage]
    ELSE OFDWrite_call(pdfbyte.pdf, <<>>, optional_text, FALSE)

Shown(g, icon, text, conv) == [g EXCEPT !.box = [icon |-> icon, text |-> text], !.conv = conv]

\* convert_file, the branch of a .pdf file: [gui, data, has_read, last]
convert_pdf(g, self, name) ==
    With(swap_pdf_ofd_path(name), LAMBDA output :
    IF output.exc # ""
    THEN [self EXCEPT !.gui = Shown(g, "critical", "pdf2ofd failed",
                                    [NoConv EXCEPT !.exc = output.exc])]
    ELSE IF output_taken(g.files, output.val)
    THEN [self EXCEPT !.gui = Shown(g, "critical", "OFD exists",
                                    [NoConv EXCEPT !.output = output.val])]
    ELSE
    With(pdf2ofd(read_pfd(g.files, name), FALSE), LAMBDA made :
    IF made.exc # ""
    THEN [self EXCEPT !.gui = Shown(g, "critical", "pdf2ofd failed",
                                    [output |-> output.val, exc |-> made.exc,
                                     bytes |-> EmptyBytes])]
    ELSE
    With(save_file(g.files, output.val, OfdBytes(made.ofd_byte)), LAMBDA saved :
    IF saved.exc # ""
    THEN [self EXCEPT !.gui = Shown(g, "critical", "pdf2ofd failed",
                                    [output |-> output.val, exc |-> saved.exc,
                                     bytes |-> OfdBytes(made.ofd_byte)])]
    ELSE [self EXCEPT !.gui = Shown([g EXCEPT !.files = saved.files],
                                    "information", "done",
                                    [output |-> output.val, exc |-> "",
                                     bytes |-> OfdBytes(made.ofd_byte)])])))

\* convert_file, the branch of an .ofd file
convert_ofd(g, self, name, outcome) ==
    With(swap_pdf_ofd_path(name), LAMBDA output :
    IF output.exc # ""
    THEN [self EXCEPT !.gui = Shown(g, "critical", "ofd2pdf failed",
                                    [NoConv EXCEPT !.exc = output.exc])]
    ELSE IF output_taken(g.files, output.val)
    THEN [self EXCEPT !.gui = Shown(g, "critical", "PDF exists",
                                    [NoConv EXCEPT !.output = output.val])]
    ELSE
    With(read(self.data, read_ofd(g.files, name), "b64"), LAMBDA parsed :
    IF parsed.exc # ""
    THEN [gui |-> Shown(g, "critical", "ofd2pdf failed",
                        [output |-> output.val, exc |-> parsed.exc, bytes |-> EmptyBytes]),
          data |-> parsed.data, has_read |-> self.has_read,
          last |-> Call("read", "b64", parsed.exc, <<>>, <<>>)]
    ELSE
    With(to_pdf(parsed.data, outcome, self.songti), LAMBDA pdf_bytes :
    IF pdf_bytes.exc # ""
    THEN [gui |-> Shown(g, "critical", "ofd2pdf failed",
                        [output |-> output.val, exc |-> pdf_bytes.exc, bytes |-> EmptyBytes]),
          data |-> parsed.data, has_read |-> TRUE,
          last |-> Call("to_pdf", "", pdf_bytes.exc, pdf_bytes.val, <<>>)]
    ELSE
    With(save_file(g.files, output.val, DrawnBytes(pdf_bytes.val)), LAMBDA saved :
    [gui |-> IF saved.exc # ""
             THEN Shown(g, "critical", "ofd2pdf failed",
                        [output |-> output.val, exc |-> saved.exc,
                         bytes |-> DrawnBytes(pdf_bytes.val)])
             ELSE Shown([g EXCEPT !.files = saved.files], "information", "done",
                        [output |-> output.val, exc |-> "",
                         bytes |-> DrawnBytes(pdf_bytes.val)]),
     data |-> parsed.data, has_read |-> TRUE,
     last |-> Call("to_pdf", "", "", pdf_bytes.val, <<>>)]))))

\* convert_file: self is [gui, data, has_read, last, songti] before the
\* click, the result the same after it
convert_file(self, outcome) ==
    LET g == self.gui
        name == g.file_path
    IN  IF name = NoName
        THEN [self EXCEPT !.gui = Shown(g, "warning", "select a file", NoConv)]
        ELSE IF ~isfile(g.files, name)
        THEN [self EXCEPT !.gui = Shown(g, "critical", "no such file", NoConv)]
        ELSE IF lower(name.ext) = ".pdf" THEN convert_pdf(g, self, name)
        ELSE IF lower(name.ext) = ".ofd" THEN convert_ofd(g, self, name, outcome)
        ELSE [self EXCEPT !.gui = Shown(g, "warning", "unsupported", NoConv)]

\* the files found in the directory when the window opens
ThePdf == Pdf(<<[size |-> <<240, 120>>, blocks |-> <<TextBlock(7)>>]>>)
ThePackage == OFDWrite_call(NoPdf, <<<<480, 240>>>>, FALSE, FALSE).ofd_byte
Found == {Absent, Dir, FileOf(EmptyBytes), FileOf(PdfBytes(ThePdf)),
          FileOf(OfdBytes(ThePackage))}

InitGui ==
    /\ data = NoData
    /\ last = Call("init", "", "", <<>>, <<>>)
    /\ songti \in BOOLEAN
    /\ has_read = FALSE
    /\ InitAlloc /\ InitIO
    /\ pack = NoPack /\ call = NoCall /\ font_tool = NoFontTool
    /\ \E files \in [FileNames -> Found] : gui = [NoGui EXCEPT !.files = files]

\* select_file, or a file dropped on the text field
SelectFile ==
    /\ \E name \in FileNames \cup {NoName} :
         /\ name # gui.file_path
         /\ gui' = [gui EXCEPT !.file_path = name]
    /\ UNCHANGED <<facadeVars, allocVars, ioVars, pack, call, font_tool>>

\* convert_file: the click on the convert button
ConvertFile ==
    /\ \E outcome \in DrawOutcomes :
         \E r \in {convert_file([gui |-> gui, data |-> data, has_read |-> has_read,
                                 last |-> last, songti |-> songti], outcome)} :
             /\ gui' = r.gui
             /\ data' = r.data
             /\ has_read' = r.has_read
             /\ last' = r.last
    /\ UNCHANGED <<songti, allocVars, ioVars, pack, call, font_tool>>

NextGui == SelectFile \/ ConvertFile

SpecGui == InitGui /\ [][NextGui]_vars

\* C16: a click on convert whose output path (the input path with .pdf and
\* .ofd swapped) exists is answered with an error and changes no file; a
\* click changes a file only by writing the output that did not exist, with
\* the bytes that the conversion returned without raising.
C16_NoOverwrite ==
    [][ConvertFile =>
         LET output == swap_pdf_ofd_path(gui.file_path)
         IN  /\ (/\ isfile(gui.files, gui.file_path) /\ output.exc = ""
                 /\ gui.files[output.val] # Absent) =>
                     (gui'.box.icon = "critical" /\ gui'.files = gui.files)
             /\ gui'.files # gui.files =>
                  /\ output.exc = "" /\ gui.files[output.val] = Absent
                  /\ gui'.conv.exc = "" /\ gui'.conv.bytes.form \in {"ofd", "drawn"}
                  /\ gui'.box.icon = "information"
                  /\ gui'.files = [n \in FileNames |->
                                      IF n = output.val THEN FileOf(gui'.conv.bytes)
                                      ELSE gui.files[n]]]_vars

\* a.ofd was to be converted while a.pdf was there: refused, a.pdf as it was
C16_Witness ==
    /\ gui.file_path = FileName("a", ".ofd")
    /\ gui.box = [icon |-> "critical", text |-> "PDF exists"]
    /\ gui.files[FileName("a", ".pdf")] = FileOf(PdfBytes(ThePdf))

\* a.PDF was converted and a.ofd, absent before, holds the package
C16_WitnessWritten ==
    /\ gui.file_path = FileName("a", ".PDF")
    /\ gui.box.icon = "information"
    /\ gui.conv.output = FileName("a", ".ofd")
    /\ gui.files[FileName("a", ".ofd")] = FileOf(gui.conv.bytes)
    /\ gui.conv.bytes.form = "ofd"

-----------------------------------------------------------------------------
(* PathParser (parser_ofd/path_parser.py) on a posix host.  A path is its   *)
(* components and whether it starts with a slash: "/Doc_0/Document.xml" is  *)
(* PosixPath(TRUE, <<"Doc_0", "Document.xml">>).                            *)

PosixPath(abs, parts) == [abs |-> abs, parts |-> parts]

\* os.path.isabs
isabs(path) == path.abs

\* os.path.normpath: "." goes, ".." takes the component before it away,
\* stays at the head of a relative path and goes at the root
RECURSIVE norm_comps(_, _, _, _)
norm_comps(comps, k, new_comps, initial_slashes) ==
    IF k > Len(comps) THEN new_comps
    ELSE IF comps[k] \in {"", "."}
    THEN norm_comps(comps, k + 1, new_comps, initial_slashes)
    ELSE IF \/ comps[k] # ".."
            \/ (~initial_slashes /\ new_comps = <<>>)
            \/ (new_comps # <<>> /\ new_comps[Len(new_comps)] = "..")
    THEN norm_comps(comps, k + 1, Append(new_comps, comps[k]), initial_slashes)
    ELSE IF new_comps # <<>>
    THEN norm_comps(comps, k + 1, SubSeq(new_comps, 1, Len(new_comps) - 1),
                    initial_slashes)
    ELSE norm_comps(comps, k + 1, new_comps, initial_slashes)

normpath(path) ==
    LET comps == norm_comps(path.parts, 1, <<>>, path.abs)
    IN  IF ~path.abs /\ comps = <<>> THEN PosixPath(FALSE, <<".">>)
        ELSE PosixPath(path.abs, comps)

\* format_path on posix: the components hold no backslash to replace
format_path(path) == normpath(path)

\* os.path.dirname
dirname(path) ==
    PosixPath(path.abs, SubSeq(path.parts, 1, Len(path.parts) - 1))

\* os.path.join
join(a, b) == IF b.abs THEN b ELSE PosixPath(a.abs, a.parts \o b.parts)

\* loc_path.startswith(prefix) for the prefixes "./" and "../"
startswith(loc_path, first) ==
    ~loc_path.abs /\ Len(loc_path.parts) >= 2 /\ loc_path.parts[1] = first

\* loc_path[2:] and loc_path[3:]: the path after its first component
after_first(loc_path) == PosixPath(FALSE, Tail(loc_path.parts))

\* PathParser.__call__
PathParser_call(cur_path, loc_path) ==
    IF isabs(loc_path) THEN format_path(loc_path)
    ELSE IF startswith(loc_path, ".")
    THEN join(cur_path, format_path(after_first(loc_path)))
    ELSE IF startswith(loc_path, "..")
    THEN join(dirname(cur_path), format_path(after_first(loc_path)))
    ELSE join(dirname(cur_path), format_path(loc_path))

PathComps == {".", "..", "Res", "font.ttf"}
CurPaths ==
    {PosixPath(TRUE, <<"Doc_0", "Document.xml">>),
     PosixPath(TRUE, <<"Doc_0", "Pages", "Content.xml">>),
     PosixPath(FALSE, <<"Document.xml">>)}
LocPaths ==
    {PosixPath(a, q) : a \in BOOLEAN, q \in SeqsUpTo(PathComps, MaxParts) \ {<<>>}}

InitPath ==
    /\ InitFacade /\ InitAlloc /\ InitIO
    /\ pack = NoPack /\ gui = NoGui /\ font_tool = NoFontTool
    /\ \E c \in CurPaths, l \in LocPaths :
         call = [args |-> [cur_path |-> c, loc_path |-> l], done |-> FALSE,
                 result |-> PosixPath(FALSE, <<>>)]

\* PathParser(root_path)(cur_path, loc_path)
ResolvePath ==
    /\ ~call.done
    /\ call' = [call EXCEPT !.done = TRUE,
                            !.result = PathParser_call(call.args.cur_path,
                                                       call.args.loc_path)]
    /\ UNCHANGED <<facadeVars, allocVars, ioVars, pack, gui, font_tool>>

NextPath == ResolvePath

SpecPath == InitPath /\ [][NextPath]_vars

\* C15: against the current path /Doc_0/Document.xml the locations
\* "../Res/font.ttf" and "Res/font.ttf" both resolve to /Res/font.ttf.
C15_ParentJoin ==
    (/\ call.done
     /\ call.args.cur_path = PosixPath(TRUE, <<"Doc_0", "Document.xml">>)
     /\ call.args.loc_path \in {PosixPath(FALSE, <<"..", "Res", "font.ttf">>),
                                PosixPath(FALSE, <<"Res", "font.ttf">>)})
        => call.result = PosixPath(TRUE, <<"Res", "font.ttf">>)

\* what the call with "../Res/font.ttf" returns: /Doc_0/Res/font.ttf
C15_Witness ==
    /\ call.done
    /\ call.args.cur_path = PosixPath(TRUE, <<"Doc_0", "Document.xml">>)
    /\ call.args.loc_path = PosixPath(FALSE, <<"..", "Res", "font.ttf">>)
    /\ call.result = PosixPath(TRUE, <<"Doc_0", "Res", "font.ttf">>)

\* a location with no leading "./" or "../" resolves as the same location
\* behind "../" does
C15_BareAsParent ==
    (/\ call.done /\ ~isabs(call.args.loc_path)
     /\ call.args.loc_path.parts[1] \notin {".", ".."}
     /\ Len(call.args.loc_path.parts) < MaxParts)
        => call.result = PathParser_call(call.args.cur_path,
               PosixPath(FALSE, <<"..">> \o call.args.loc_path.parts))

-----------------------------------------------------------------------------
(* cmp_offset called on its own, on the runs that draw_chars hands it.     *)

\* the tokens of the rules: "g", "3", "6", "1.5" and the empty token
RuleTokens == {Word("g"), IntTok(3), IntTok(6), NumTok(Flt(3, 2)), Word("")}
\* the rules of two g groups, "g n s g m t"
TwoGroupRules ==
    {Chars(<<Word("g"), n, s, Word("g"), m, t>>) :
        n \in {IntTok(3), IntTok(6)}, s \in {IntTok(6), NumTok(Flt(3, 2))},
        m \in {IntTok(3), IntTok(6)}, t \in {IntTok(3), NumTok(Flt(3, 2))}}
DeltaRules ==
    {Str("")} \cup {Chars(r) : r \in SeqsUpTo(RuleTokens, MaxRule) \ {<<>>, <<Word("")>>}}
        \cup TwoGroupRules
SomeCTM == [given |-> TRUE, resizeX |-> Flt(2, 1), resizeY |-> Flt(1, 2),
            moveX |-> Flt(1, 1), moveY |-> Flt(0, 1)]
CmpOffsetArgs ==
    [pos : {Flt(0, 1), Flt(5, 2)},
     offset : {Str(""), Chars(<<IntTok(2)>>)},
     DeltaRule : DeltaRules,
     text : {Text(n) : n \in 0..MaxText},
     CTM_info : {NoCTM, SomeCTM},
     dire : {"X", "Y"}]

InitCmpOffset ==
    /\ InitFacade /\ InitAlloc /\ InitIO
    /\ pack = NoPack /\ gui = NoGui /\ font_tool = NoFontTool
    /\ \E a \in CmpOffsetArgs :
         call = [args |-> a, done |-> FALSE, result |-> [exc |-> "", val |-> <<>>]]

\* self.cmp_offset(pos, X, DeltaX, text, CTM_info, dire)
CallCmpOffset ==
    /\ ~call.done
    /\ \E r \in {cmp_offset(call.args.pos, call.args.offset, call.args.DeltaRule,
                            call.args.text, call.args.CTM_info, call.args.dire)} :
         call' = [call EXCEPT !.done = TRUE, !.result = r]
    /\ UNCHANGED <<facadeVars, allocVars, ioVars, pack, gui, font_tool>>

NextCmpOffset == CallCmpOffset

SpecCmpOffset == InitCmpOffset /\ [][NextCmpOffset]_vars

\* the rule "g n s": n the text of an int, s the text of a number
IsGRule(rule) ==
    /\ rule.t = "chars" /\ Len(rule.x) = 3
    /\ rule.x[1] = Word("g") /\ IsIntText(rule.x[2]) /\ IsFloatText(rule.x[3])

\* C13: with no CTM, start position p, start offset o and the rule "g n s",
\* cmp_offset returns exactly the n + 1 coordinates p+o, p+o+s, ..., p+o+n*s.
C13_GRule ==
    (call.done /\ ~call.args.CTM_info.given /\ IsGRule(call.args.DeltaRule)) =>
        LET start == FloatAdd(call.args.pos, FloatOr0(call.args.offset).val)
            n == IntOf(call.args.DeltaRule.x[2])
            step == FloatOf(call.args.DeltaRule.x[3])
        IN  /\ call.result.exc = ""
            /\ call.result.val =
                  [i \in 1..(n + 1) |-> FloatAdd(start, FloatMul(Flt(i - 1, 1), step))]

\* start 0, no offset, no CTM, rule "g 3 6": the coordinates 0, 6, 12, 18
C13_Witness ==
    /\ call.done
    /\ call.args.pos = Flt(0, 1) /\ call.args.offset = Str("")
    /\ ~call.args.CTM_info.given
    /\ call.args.DeltaRule = Chars(<<Word("g"), IntTok(3), IntTok(6)>>)
    /\ call.result = [exc |-> "", val |-> <<Flt(0, 1), Flt(6, 1), Flt(12, 1), Flt(18, 1)>>]

\* C25 as stated: of a rule with two g groups only the first is
\* expanded, so the second g and the two tokens after it add no advance:
\* the list holds the first coordinate and the n advances of the first group.
C25_OnlyFirstGroup ==
    (call.done /\ call.args.DeltaRule \in TwoGroupRules) =>
        Len(call.result.val) <= 1 + IntOf(call.args.DeltaRule.x[2])

\* C25: every g group of a rule is expanded: for the rule "g n s g m t"
\* cmp_offset returns 1 + n + m coordinates, and with no CTM they are the
\* first coordinate, then n advances of s, then m advances of t.
C25_EveryGroupExpanded ==
    (call.done /\ call.args.DeltaRule \in TwoGroupRules) =>
        LET rule == call.args.DeltaRule.x
            n == IntOf(rule[2])
            m == IntOf(rule[5])
            s == FloatOf(rule[3])
            t == FloatOf(rule[6])
            start == FloatAdd(call.args.pos, FloatOr0(call.args.offset).val)
        IN  /\ call.result.exc = ""
            /\ Len(call.result.val) = 1 + n + m
            /\ ~call.args.CTM_info.given =>
                  call.result.val =
                     [i \in 1..(1 + n + m) |->
                        IF i <= n + 1
                        THEN FloatAdd(start, FloatMul(Flt(i - 1, 1), s))
                        ELSE FloatAdd(FloatAdd(start, FloatMul(Flt(n, 1), s)),
                                      FloatMul(Flt(i - 1 - n, 1), t))]

\* start 0, no offset, no CTM, rule "g 3 6 g 3 3": seven coordinates, the
\* last three advanced by 3
C25_Witness ==
    /\ call.done
    /\ call.args.pos = Flt(0, 1) /\ call.args.offset = Str("")
    /\ ~call.args.CTM_info.given
    /\ call.args.DeltaRule =
          Chars(<<Word("g"), IntTok(3), IntTok(6), Word("g"), IntTok(3), IntTok(3)>>)
    /\ call.result = [exc |-> "",
                      val |-> <<Flt(0, 1), Flt(6, 1), Flt(12, 1), Flt(18, 1),
                                Flt(21, 1), Flt(24, 1), Flt(27, 1)>>]

\* the rule "g n s" written out as n plain tokens s
Unrolled(rule) == Chars([i \in 1..IntOf(rule.x[2]) |-> rule.x[3]])

\* C30: under every CTM, for every start position, offset and rule "g n s",
\* cmp_offset returns the coordinate list it returns for the rule of n plain
\* tokens s: the g step is scaled by the resize factor like a plain advance.
C30_GroupIsRepeatedToken ==
    (call.done /\ IsGRule(call.args.DeltaRule)) =>
        call.result = cmp_offset(call.args.pos, call.args.offset,
                                 Unrolled(call.args.DeltaRule), call.args.text,
                                 call.args.CTM_info, call.args.dire)

\* start 0, no offset, the CTM of scale 2 and shift 1 along X, rule "g 3 6":
\* the steps of the coordinate list are 6, those of "6 6 6" are 12
C30_Witness ==
    /\ call.done
    /\ call.args.pos = Flt(0, 1) /\ call.args.offset = Str("")
    /\ call.args.CTM_info = SomeCTM /\ call.args.dire = "X"
    /\ call.args.DeltaRule = Chars(<<Word("g"), IntTok(3), IntTok(6)>>)
    /\ call.result = [exc |-> "", val |-> <<Flt(2, 1), Flt(8, 1), Flt(14, 1), Flt(20, 1)>>]
    /\ cmp_offset(call.args.pos, call.args.offset, Unrolled(call.args.DeltaRule),
                  call.args.text, call.args.CTM_info, call.args.dire)
         = [exc |-> "", val |-> <<Flt(2, 1), Flt(14, 1), Flt(26, 1), Flt(38, 1)>>]

\* with no CTM the rule "g n s" and the rule of n tokens s give one list
C30_SameWithoutCTM ==
    (call.done /\ IsGRule(call.args.DeltaRule) /\ ~call.args.CTM_info.given) =>
        call.result = cmp_offset(call.args.pos, call.args.offset,
                                 Unrolled(call.args.DeltaRule), call.args.text,
                                 call.args.CTM_info, call.args.dire)

\* C14: for every text run and every Delta rule, the list that cmp_offset
\* returns has at least as many coordinates as the text has characters.
C14_EnoughCoordinates ==
    (call.done /\ call.result.exc = "") =>
        Len(call.result.val) >= Len(call.args.text.x)

\* C11: when a call of the container reader has ended, with the path map
\* returned or with an error raised (an archive that cannot be opened, an
\* xml member that cannot be parsed), neither the archive file nor the
\* extraction directory that the call created is left on disk.
C11_NothingLeft ==
    pc \in {"unzipped", "parsed", "raised"} =>
        (~disk.zip_file /\ ~disk.unzip_dir)

-----------------------------------------------------------------------------
(* The carrier res_uuid in the members written by a session (SpecWrite) *)
\* the elements in and below an element that have an attribute res_uuid or
\* a child element res_uuid, by their tags in document order
RECURSIVE CarrierTags(_)
RECURSIVE KidsCarrierTags(_, _)
CarrierTags(e) ==
    (IF \/ \E i \in 1..Len(e.attrs) : e.attrs[i].k \in {"res_uuid", "@res_uuid"}
        \/ \E i \in 1..Len(e.kids) : e.kids[i].tag = "res_uuid"
     THEN <<e.tag>> ELSE <<>>) \o KidsCarrierTags(e.kids, 1)
KidsCarrierTags(kids, i) ==
    IF i > Len(kids) THEN <<>>
    ELSE CarrierTags(kids[i]) \o KidsCarrierTags(kids, i + 1)

\* the xml members of the package whose file is named name
XmlMembers(name) ==
    {i \in 1..Len(pkg.members) : pkg.members[i].path[Len(pkg.members[i].path)] = XmlFile(name)}

\* C27: in a package written, no element of DocumentRes.xml, PublicRes.xml
\* or a Content.xml has a res_uuid attribute or a res_uuid child element.
C27_NoCarrierWritten ==
    pc = "written" =>
        \A i \in XmlMembers("DocumentRes") \cup XmlMembers("PublicRes")
                    \cup XmlMembers("Content") :
            CarrierTags(pkg.members[i].doc) = <<>>

\* jpg2ofd of one image: the MultiMedia element of DocumentRes.xml is
\* written with the child element res_uuid
C27_Witness ==
    /\ pc = "written" /\ inp.op = "jpg2ofd" /\ Len(inp.pil_img_list) = 1
    /\ \E i \in XmlMembers("DocumentRes") :
          CarrierTags(pkg.members[i].doc) = <<"ofd:MultiMedia">>

\* the Content.xml members are written without the carrier
C27_ContentWithoutCarrier ==
    pc = "written" =>
        \A i \in XmlMembers("Content") : CarrierTags(pkg.members[i].doc) = <<>>

\* the set of the entries of a sequence
Range(seq) == {seq[i] : i \in 1..Len(seq)}

\* the values of the attribute attr of the elements named tag in and below
\* an element (None for an element without it), in document order
RECURSIVE ElemAttrs(_, _, _)
RECURSIVE KidsAttrs(_, _, _, _)
ElemAttrs(e, tag, attr) ==
    (IF e.tag = tag
     THEN <<IF \E i \in 1..Len(e.attrs) : e.attrs[i].k = attr
            THEN e.attrs[CHOOSE i \in 1..Len(e.attrs) : e.attrs[i].k = attr].v
            ELSE NoneV>>
     ELSE <<>>) \o KidsAttrs(e.kids, 1, tag, attr)
KidsAttrs(kids, i, tag, attr) ==
    IF i > Len(kids) THEN <<>>
    ELSE ElemAttrs(kids[i], tag, attr) \o KidsAttrs(kids, i + 1, tag, attr)

\* the values of attr of the elements named tag in the members named name
WrittenAttrs(name, tag, attr) ==
    UNION {Range(ElemAttrs(pkg.members[i].doc, tag, attr)) : i \in XmlMembers(name)}

\* C28: in every package written, the @Font of each TextObject is the @ID
\* of a Font of PublicRes.xml and the @ResourceID of each ImageObject is
\* the @ID of a MultiMedia of DocumentRes.xml, whatever res_uuid the fonts
\* and images carry, a font and an image with one res_uuid included.
C28_ReferencesResolve ==
    pc = "written" =>
        /\ WrittenAttrs("Content", "ofd:TextObject", "@Font")
              \subseteq WrittenAttrs("PublicRes", "ofd:Font", "@ID")
        /\ WrittenAttrs("Content", "ofd:ImageObject", "@ResourceID")
              \subseteq WrittenAttrs("DocumentRes", "ofd:MultiMedia", "@ID")

\* an editable PDF whose text block and image block carry one res_uuid: the
\* text object is written with the id of the MultiMedia entry as its @Font
C28_Witness ==
    /\ pc = "written" /\ inp.op = "pdf2ofd" /\ inp.optional_text
    /\ \E u \in UUIDs :
          inp.pdf_bytes = Pdf(<<[size |-> <<240, 120>>, blocks |-> <<TextBlock(u)>>],
                                [size |-> <<240, 120>>, blocks |-> <<ImgBlock(u)>>]>>)
    /\ WrittenAttrs("Content", "ofd:TextObject", "@Font")
          = WrittenAttrs("DocumentRes", "ofd:MultiMedia", "@ID")
    /\ WrittenAttrs("Content", "ofd:TextObject", "@Font")
          \cap WrittenAttrs("PublicRes", "ofd:Font", "@ID") = {}

\* the res_uuid of the fonts of the PDF written, and of its images
FontUuids ==
    {b.res_uuid : b \in {c \in Range(all_blocks(inp.pdf_bytes.pages, 1)) : c.type = "text"}}
ImageUuids ==
    {b.res_uuid : b \in {c \in Range(all_blocks(inp.pdf_bytes.pages, 1)) : c.type = "img"}}

\* with no res_uuid carried by both a font and an image the references of
\* the package of a PDF that has a page resolve
C28_ResolveWhenDisjoint ==
    (/\ pc = "written"
     /\ inp.op = "pdf2ofd" => (inp.pdf_bytes.pages # <<>> /\ FontUuids \cap ImageUuids = {})) =>
        /\ WrittenAttrs("Content", "ofd:TextObject", "@Font")
              \subseteq WrittenAttrs("PublicRes", "ofd:Font", "@ID")
        /\ WrittenAttrs("Content", "ofd:ImageObject", "@ResourceID")
              \subseteq WrittenAttrs("DocumentRes", "ofd:MultiMedia", "@ID")

-----------------------------------------------------------------------------
(* A text block of an editable PDF, written and laid out again *)
\* the left edges and widths of the blocks, in PDF points
BlockLefts == {0, 48}
BlockWidths == {96, 127, 480, 960}
TextBlocks ==
    {[type |-> "text", res_uuid |-> Dec(1), res |-> Str("SimSun"),
      bbox |-> <<x, 24, x + w, 48>>, text |-> Text(n), size |-> 12] :
        x \in BlockLefts, w \in BlockWidths, n \in 0..MaxText}

InitAdvance ==
    /\ InitFacade /\ InitAlloc /\ InitIO
    /\ pack = NoPack /\ gui = NoGui /\ font_tool = NoFontTool
    /\ \E b \in TextBlocks, p \in {Flt(0, 1), Flt(5, 2)} :
         call = [args |-> [block |-> b, pos |-> p], done |-> FALSE,
                 result |-> [at |-> "block", exc |-> "", TextObject |-> <<>>,
                             val |-> <<>>]]

\* the loop of build_content_res over the one block of the page
BuildBlock ==
    /\ call.result.at = "block"
    /\ \E r \in {page_blocks(<<call.args.block>>, 1, <<>>, <<>>)} :
         call' = [call EXCEPT !.result = [at |-> IF r.exc = "" THEN "built" ELSE "raised",
                                          exc |-> r.exc, TextObject |-> r.TextObject,
                                          val |-> <<>>]]
    /\ UNCHANGED <<facadeVars, allocVars, ioVars, pack, gui, font_tool>>

\* self.cmp_offset(pos, X, DeltaX, text, None, "X") on the text object written
LayOutBlock ==
    /\ call.result.at = "built"
    /\ \E code \in {Get(call.result.TextObject[1], "ofd:TextCode")} :
       \E r \in {cmp_offset(call.args.pos, Get(code, "@X"), Get(code, "@DeltaX"),
                            Get(code, "#text"), NoCTM, "X")} :
         call' = [call EXCEPT !.done = TRUE,
                              !.result = [at |-> "laid", exc |-> r.exc,
                                          TextObject |-> call.result.TextObject,
                                          val |-> r.val]]
    /\ UNCHANGED <<facadeVars, allocVars, ioVars, pack, gui, font_tool>>

NextAdvance == BuildBlock \/ LayOutBlock

SpecAdvance == InitAdvance /\ [][NextAdvance]_vars

\* the width of the block in mm and its number of characters
BlockLength == FloatDiv(IntToFloat(call.args.block.bbox[3] - call.args.block.bbox[1]), OP)
BlockCount == Len(call.args.block.text.x)

\* C26: a text block of n >= 1 characters and width L is written with the
\* rule "g n-1 L/n"; cmp_offset on that rule, the written X offset and no CTM
\* returns exactly n coordinates, character k at first + k * (L/n); a block of
\* no character leaves no text object (the division by the count raises).
C26_UniformAdvance ==
    /\ (call.result.at # "block" /\ BlockCount = 0) =>
          (call.result.at = "raised" /\ call.result.TextObject = <<>>)
    /\ (call.result.at # "block" /\ BlockCount >= 1) =>
          LET step == FloatDiv(BlockLength, IntToFloat(BlockCount))
          IN  /\ call.result.at \in {"built", "laid"}
              /\ Len(call.result.TextObject) = 1
              /\ Get(Get(call.result.TextObject[1], "ofd:TextCode"), "@DeltaX")
                   = Chars(<<Word("g"), IntTok(BlockCount - 1), NumTok(step)>>)
              /\ call.result.at = "laid" =>
                   /\ call.result.exc = ""
                   /\ call.result.val =
                        [i \in 1..BlockCount |->
                           FloatAdd(call.result.val[1], FloatMul(Flt(i - 1, 1), step))]
                   /\ call.result.val[1] = call.args.pos

\* four characters over 480 points (127 mm) from 5/2: the rule "g 3 127/4"
\* and the coordinates 5/2, 5/2 + 127/4, 5/2 + 127/2, 5/2 + 381/4
C26_Witness ==
    /\ call.result.at = "laid"
    /\ BlockCount = 4 /\ BlockLength = Flt(127, 1)
    /\ call.args.pos = Flt(5, 2)
    /\ call.result.val = <<Flt(5, 2), Flt(137, 4), Flt(66, 1), Flt(391, 4)>>

====
